---- MODULE Spec2Model ----
(***************************************************************************)
(* Recording orchestrator of the WebRTC SFU server.                        *)
(*                                                                         *)
(* Three managers keep a Registry (a Map from recording id to a state      *)
(* object): MixedRecordingManager (one muxer fed by every input),          *)
(* PerParticipantRecorder (one muxer per producer) and RecordingManager    *)
(* (one muxer, one transport per kind), the last two reached through       *)
(* RecordingHandler.  A start call and a stop call are asynchronous        *)
(* functions: each action below is the code that runs between two          *)
(* suspension points of such a call.                                       *)
(***************************************************************************)
EXTENDS Integers, Sequences, FiniteSets, TLC

\* ---- bounds of the model ----
MaxClock == 1       \* Date.now() takes the values 0..MaxClock
MaxStarts == 2      \* start calls, numbered in order of arrival
MaxStops == 2       \* stop calls, numbered in order of arrival

\* ---- the room ----
Producers == {"v1", "a1"}
Kind(p) == IF p = "v1" THEN "video" ELSE "audio"

Ids == 0..MaxClock
StartCalls == 1..MaxStarts
StopCalls == 1..MaxStops
Slots == Producers \cup {"main"}
NoRec == 0

VARIABLES
  mode,           \* the manager the session drives: "mixed", "per" or "rm"
  now,            \* Date.now()
  router,         \* room.router: "none", "nocaps" (no rtpCapabilities), "ready"
  roomProducers,  \* producers of the peers of the room
  consumable,     \* producers for which router.canConsume answers true
  active,         \* the Registry: id -> state object (the start call that built it), NoRec if absent
  start,          \* start calls: position, id, loop cursor, looked-up entry, reply
  tr,             \* transports, by creating start call and producer (kind)
  co,             \* consumers, by creating start call and producer
  tlist,          \* transports held by a state object
  plist,          \* consumers held by a state object
  mux,            \* muxer processes held by a state object
  ff,             \* muxer processes, by creating start call and slot
  timers,         \* periodic timers (keyframe pump, monitor) of a state object
  stop,           \* stop calls: position, id, state object, reply
  events,         \* events emitted on the socket, per recording id, in order
  fs,             \* directories and files created
  ui,             \* the browser's RecordingManager (fields, pending requests and timers)
  pt,             \* UDP ports of 127.0.0.1: bound ones, and each endpoint's peer port
  sd,             \* one start of RecordingManager: payload types and the SDP built
  mx,             \* one startMixedRecording over a larger room: selection, inputs,
                  \* layout, filter graph and output maps of the argument vector
  fl,             \* one recording of RecordingManager: the path it reports and the
                  \* path its muxer writes
  tm,             \* timing of one mixed recording, in seconds: clock, startedAt,
                  \* ffmpegStartedAt, the stop call's request, timer and go-ahead
  pe,             \* one registered recording of PerParticipantRecorder and the
                  \* stop call on it: items, calls made, metadata
  rh              \* calls of RecordingHandler: operation, argument, position, the
                  \* error the manager raised and what the call gave back

vars == <<mode, now, router, roomProducers, consumable, active, start, tr, co,
          tlist, plist, mux, ff, timers, stop, events, fs, ui, pt, sd, mx, fl, tm, pe, rh>>

\* what no operation of the server's managers changes
env == <<mode, router, roomProducers, consumable, ui, pt, sd, mx, fl, tm, pe, rh>>

\* ---- helpers ----
NoProc == [st |-> "none", q |-> FALSE, stdin |-> FALSE, sig |-> "none"]
IdleStart == [pc |-> "idle", id |-> 0, todo |-> <<>>, rec |-> NoRec, result |-> "none"]
IdleStop == [pc |-> "idle", id |-> 0, st |-> NoRec, result |-> "none"]

\* endpoints (plain transports) of one mixed recording and of one recording
\* of RecordingManager; no port bound, no endpoint connected
Endpoints == {"mv", "ma", "rv", "ra"}
NoPort == 0 - 1
\* no media section written, no transport.connect made
NoMedia == [rtp |-> NoPort, rtcp |-> NoPort]
\* no call of an allocator under way
AlIdle == [fn |-> "none", pc |-> "idle", attempts |-> 0, candidate |-> NoPort,
           ok |-> <<>>, pending |-> FALSE, socks |-> {}, good |-> {}, probes |-> 0,
           result |-> NoPort]
PtIdle == [busy |-> {}, port |-> [e \in Endpoints |-> NoPort],
           probed |-> [e \in Endpoints |-> {}],
           ep |-> [e \in Endpoints |-> "none"], listening |-> {}, al |-> AlIdle,
           conn |-> [e \in Endpoints |-> NoMedia], sdp |-> [e \in Endpoints |-> NoMedia]]

\* the producers of the room seen by RecordingManager, in enumeration order,
\* and the RTP payload types a codec entry can carry; NoPT stands for null
SdpInputs == <<"v1", "v2", "a1">>
SdpKind(p) == IF p = "a1" THEN "audio" ELSE "video"
PTs == {96, 100}
NoPT == 0
SdIdle == [variant |-> "none", producerPT |-> [p \in {"v1", "v2", "a1"} |-> NoPT],
           consumerPT |-> [p \in {"v1", "v2", "a1"} |-> NoPT], pc |-> "idle", todo |-> <<>>,
           attached |-> {}, videoCodec |-> NoPT, audioCodec |-> NoPT,
           sdpVideo |-> NoPT, sdpAudio |-> NoPT, log |-> <<>>]

\* startMixedRecording not called yet
NoLayout == [rows |-> 0, cols |-> 0, cellW |-> 0, cellH |-> 0]
MxIdle == [V |-> 0, A |-> 0, width |-> 0, height |-> 0, bad |-> {}, pc |-> "idle",
           todo |-> <<>>, inputs |-> <<>>, videoCount |-> 0, audioCount |-> 0,
           layout |-> NoLayout, filter |-> <<>>, maps |-> <<>>]

\* no recording of RecordingManager yet; NoPath stands for undefined
NoPath == [dir |-> "", name |-> <<>>]
FlIdle == [clk |-> 0, recordDir |-> "files", pc |-> "idle", filePath |-> NoPath,
           output |-> NoPath, written |-> {}, file_exists |-> FALSE]

\* no recording yet; NoTime stands for null
NoTime == 0 - 1
TmIdle == [emitted |-> <<>>, hasStarted |-> FALSE, keyframeIntervals |-> FALSE, monitorInterval |-> FALSE,
           ffmpegCheckInterval |-> FALSE, lateChecks |-> 0, clk |-> 0, phase |-> "none", startedAt |-> NoTime, ffmpegStartedAt |-> NoTime,
           reqAt |-> NoTime, wakeAt |-> NoTime, goAt |-> NoTime,
           actual_elapsed |-> NoTime, exitAt |-> NoTime, duration |-> NoTime,
           pid |-> FALSE, recordingStarted |-> 0]

\* the browser's RecordingManager after its constructor: not recording, no
\* recording id (hasId FALSE), no start time (startSet FALSE)
\* no recording of PerParticipantRecorder looked at
NoMeta == [startedAt |-> NoTime, endedAt |-> NoTime, durationMs |-> NoTime, files |-> <<>>]
PrIdle == [items |-> <<>>, startedAt |-> NoTime, clk |-> 0, registered |-> FALSE,
           pc |-> "idle", i |-> 0, calls |-> <<>>, metadata |-> NoMeta, file |-> NoMeta]

MaxHandlerCalls == 2   \* calls of RecordingHandler
HandlerCalls == 1..MaxHandlerCalls
NoError == [message |-> "none"]
NoReply == [raised |-> FALSE, success |-> FALSE, error |-> "none", body |-> "none"]
RhIdle == [h \in HandlerCalls |->
            [op |-> "none", data |-> "none", pc |-> "idle", thrown |-> NoError, reply |-> NoReply]]

UiIdle == [req |-> "none", n |-> 0, hasId |-> FALSE, id |-> 0, isRecording |-> FALSE,
           startSet |-> FALSE, age |-> 0, armed |-> FALSE,
           stopReq |-> "none", stopId |-> 0, stopArmed |-> FALSE]

\* producers of the room in enumeration order, videos first when asked
SeqOfKind(k) == IF k = "video"
                THEN (IF "v1" \in roomProducers THEN <<"v1">> ELSE <<>>)
                ELSE (IF "a1" \in roomProducers THEN <<"a1">> ELSE <<>>)
videoProducers == SeqOfKind("video")
audioProducers == SeqOfKind("audio")

Emit(id, name) == events' = [events EXCEPT ![id] = Append(@, name)]

\* a call is admitted only after the calls numbered before it
StartArrives(c) == start[c].pc = "idle" /\ (c > 1 => start[c - 1].pc # "idle")
StopArrives(s) == stop[s].pc = "idle" /\ (s > 1 => stop[s - 1].pc # "idle")

Fail(c, why) == start' = [start EXCEPT ![c].pc = "done", ![c].result = why]

Init ==
  /\ mode \in {"mixed", "per", "rm"}
  /\ now = 0
  /\ router \in {"none", "nocaps", "ready"}
  /\ roomProducers \in SUBSET Producers
  /\ consumable \in SUBSET roomProducers
  /\ router = "nocaps" => Cardinality(roomProducers) <= 1
  /\ active = [i \in Ids |-> NoRec]
  /\ start = [c \in StartCalls |-> IdleStart]
  /\ tr = [c \in StartCalls |-> [p \in Producers |-> "none"]]
  /\ co = [c \in StartCalls |-> [p \in Producers |-> "none"]]
  /\ tlist = [c \in StartCalls |-> {}]
  /\ plist = [c \in StartCalls |-> {}]
  /\ mux = [c \in StartCalls |-> {}]
  /\ ff = [c \in StartCalls |-> [x \in Slots |-> NoProc]]
  /\ timers = [c \in StartCalls |-> FALSE]
  /\ stop = [s \in StopCalls |-> IdleStop]
  /\ events = [i \in Ids |-> <<>>]
  /\ fs = {}
  /\ ui = UiIdle
  /\ tm = TmIdle
  /\ pe = PrIdle
  /\ rh = RhIdle
  /\ pt = PtIdle
  /\ sd = SdIdle
  /\ mx = MxIdle
  /\ fl = FlIdle

\* the wall clock advances (it is read by the prelude of a start call only)
Tick ==
  /\ now < MaxClock
  /\ \E c \in StartCalls : start[c].pc = "idle"
  /\ now' = now + 1
  /\ UNCHANGED <<env, active, start, tr, co, tlist, plist, mux, ff, timers, stop, events, fs>>

\* a muxer process exits (on its own, after a quit request or after a signal)
\* with exit code 0 ("exited") or another one ("crashed"); the 'close' and
\* 'exit' listeners log the code and set the local flag hasError only
ExitCodes == {"exited", "crashed"}
MuxerExit(c, x) ==
  /\ ff[c][x].st = "running"
  /\ \E code \in ExitCodes :
       ff' = [ff EXCEPT ![c][x].st = code, ![c][x].stdin = FALSE]
  /\ UNCHANGED <<env, now, active, start, tr, co, tlist, plist, mux, timers, stop, events, fs>>

(***************************************************************************)
(* MixedRecordingManager.startMixedRecording, called through               *)
(* RecordingHandler.startMixedRecording, which turns a throw into a reply. *)
(***************************************************************************)

\* synchronous prelude: router check, producer enumeration, id, directories
StartMixedRecording(c) ==
  /\ mode = "mixed"
  /\ StartArrives(c)
  /\ IF router = "none"
     THEN Fail(c, "RouterUnready") /\ UNCHANGED fs
     ELSE IF Len(videoProducers) = 0 /\ Len(audioProducers) = 0
     THEN Fail(c, "NoInputs") /\ UNCHANGED fs
     ELSE \E writable \in BOOLEAN :
            IF writable
            THEN /\ start' = [start EXCEPT ![c].pc = "bind", ![c].id = now,
                                           ![c].todo = videoProducers \o audioProducers]
                 /\ fs' = fs \cup {<<"outDir">>, <<"sdpDir", now>>}
            ELSE Fail(c, "OutputUnwritable") /\ UNCHANGED fs
  /\ UNCHANGED <<env, now, active, tr, co, tlist, plist, mux, ff, timers, stop, events>>

BindOutcomes == {"ok", "nocodec", "failTransport", "failConsume", "failConnect"}

\* one iteration of the binding loops: canConsume, createPlainTransport,
\* consume (paused), codec lookup, _getFreePort, connect, SDP file
MixedBind(c) ==
  /\ mode = "mixed"
  /\ start[c].pc = "bind"
  /\ start[c].todo # <<>>
  /\ LET p == Head(start[c].todo)
         rest == Tail(start[c].todo)
         next == [start EXCEPT ![c].todo = rest,
                               ![c].pc = IF rest = <<>> THEN "spawn" ELSE "bind"]
     IN IF p \notin consumable
        THEN start' = next /\ UNCHANGED <<tr, co, tlist, plist, fs>>
        ELSE \E o \in BindOutcomes :
          CASE o = "ok" ->
                 /\ start' = next
                 /\ tr' = [tr EXCEPT ![c][p] = "open"]
                 /\ co' = [co EXCEPT ![c][p] = "paused"]
                 /\ tlist' = [tlist EXCEPT ![c] = @ \cup {p}]
                 /\ plist' = [plist EXCEPT ![c] = @ \cup {<<c, p>>}]
                 /\ fs' = fs \cup {<<"sdp", start[c].id, p>>}
            [] o = "nocodec" ->
                 /\ start' = next
                 /\ tr' = [tr EXCEPT ![c][p] = "closed"]
                 /\ co' = [co EXCEPT ![c][p] = "closed"]
                 /\ UNCHANGED <<tlist, plist, fs>>
            [] o = "failTransport" ->
                 /\ Fail(c, "error")
                 /\ UNCHANGED <<tr, co, tlist, plist, fs>>
            [] o = "failConsume" ->
                 /\ Fail(c, "error")
                 /\ tr' = [tr EXCEPT ![c][p] = "open"]
                 /\ UNCHANGED <<co, tlist, plist, fs>>
            [] o = "failConnect" ->
                 /\ Fail(c, "error")
                 /\ tr' = [tr EXCEPT ![c][p] = "open"]
                 /\ co' = [co EXCEPT ![c][p] = "paused"]
                 /\ UNCHANGED <<tlist, plist, fs>>
  /\ UNCHANGED <<env, now, active, mux, ff, timers, stop, events>>

\* what spawn('ffmpeg', ...) can do: the child runs; the child cannot be
\* started ('error' event, no pid, exit code set); spawn throws
SpawnOutcomes == {"running", "failed", "throws"}
Spawned(o, pipeStdin) ==
  [st |-> o, q |-> FALSE, stdin |-> (pipeStdin /\ o = "running"), sig |-> "none"]

\* inputs.length check, argument vector, spawn, then the 500 ms pause
MixedSpawn(c) ==
  /\ mode = "mixed"
  /\ start[c].pc = "spawn"
  /\ IF tlist[c] = {}
     THEN Fail(c, "NoInputs") /\ UNCHANGED ff
     ELSE \E o \in SpawnOutcomes :
            IF o = "throws"
            THEN Fail(c, "error") /\ UNCHANGED ff
            ELSE /\ ff' = [ff EXCEPT ![c]["main"] = Spawned(o, TRUE)]
                 /\ start' = [start EXCEPT ![c].pc = "settle"]
  /\ UNCHANGED <<env, now, active, tr, co, tlist, plist, mux, timers, stop, events, fs>>

Resume(st) == IF st = "paused" THEN "flowing" ELSE st

\* after the pause: resume every consumer, start the keyframe pump and the
\* monitor, put the state object in the Registry, emit 'starting', reply
MixedRegister(c) ==
  /\ mode = "mixed"
  /\ start[c].pc = "settle"
  /\ co' = [co EXCEPT ![c] = [p \in Producers |->
                IF <<c, p>> \in plist[c] THEN Resume(co[c][p]) ELSE co[c][p]]]
  /\ timers' = [timers EXCEPT ![c] = TRUE]
  /\ mux' = [mux EXCEPT ![c] = {<<c, "main">>}]
  /\ active' = [active EXCEPT ![start[c].id] = c]
  /\ Emit(start[c].id, "starting")
  /\ start' = [start EXCEPT ![c].pc = "done", ![c].result = "success"]
  /\ UNCHANGED <<env, now, tr, tlist, plist, ff, stop, fs>>

(***************************************************************************)
(* MixedRecordingManager.stopMixedRecording.  consumer.close() and         *)
(* transport.close() return at once, so a run of closes is one step; the   *)
(* call is suspended at the minimum-runtime timer, at each                 *)
(* _waitForProcessClose whose child is still running, and at the probe.    *)
(***************************************************************************)

st_ff(c) == ff[c]["main"]

\* this.active.get(recording_id) / this.activeRecordings.get(recording_id)
Lookup_Fallback(id) ==
  IF active[id] # NoRec THEN active[id]
  ELSE IF \E j \in Ids : active[j] # NoRec
       THEN active[CHOOSE j \in Ids : active[j] # NoRec]
       ELSE NoRec
Lookup(id) == active[id]

\* _waitForProcessClose answers true when the child has an exit code (or
\* closes during the wait) and false when the timer fires first
ProcessClosed(f) == f.st # "running"

\* stdin.write('q\n'); stdin.end(), guarded by stdin && !stdin.destroyed
QuitRequest_Skipped(f) == f
QuitRequest(f) == IF f.stdin THEN [f EXCEPT !.q = TRUE, !.stdin = FALSE] ELSE f

\* close() on a consumer its producer's close already closed changes
\* nothing, and a close() that throws is caught, one try/catch per consumer
CloseConsumers_AbortOnClosed(c) ==
  IF \E p \in Producers : <<c, p>> \in plist[c] /\ co[c][p] = "producerclosed"
  THEN co
  ELSE [cc \in StartCalls |-> [p \in Producers |->
          IF <<cc, p>> \in plist[c] /\ co[cc][p] # "none" THEN "closed" ELSE co[cc][p]]]
CloseConsumers(c) ==
  [cc \in StartCalls |-> [p \in Producers |->
     IF <<cc, p>> \in plist[c] /\ co[cc][p] \notin {"none", "producerclosed"}
     THEN "closed" ELSE co[cc][p]]]
CloseTransports(c) ==
  [cc \in StartCalls |-> [p \in Producers |->
     IF cc = c /\ p \in tlist[c] /\ tr[cc][p] # "none" THEN "closed" ELSE tr[cc][p]]]

\* clear the timers, close every consumer and transport, delete the entry
StopMixedFinish(s, c, id) ==
  /\ timers' = [timers EXCEPT ![c] = FALSE]
  /\ co' = CloseConsumers(c)
  /\ tr' = CloseTransports(c)
  /\ active' = [active EXCEPT ![id] = NoRec]
  /\ stop' = [stop EXCEPT ![s].pc = "probe", ![s].id = id, ![s].st = c]

\* the first _waitForProcessClose(st.ff, 300) is reached
StopMixedEnter(s, c, id) ==
  IF ProcessClosed(st_ff(c))
  THEN StopMixedFinish(s, c, id)
  ELSE /\ stop' = [stop EXCEPT ![s].pc = "wait300", ![s].id = id, ![s].st = c]
       /\ UNCHANGED <<timers, co, tr, active>>

\* lookup, 'stopping' event, elapsed time against minRunMs
StopMixedRecording(s, id) ==
  /\ mode = "mixed"
  /\ StopArrives(s)
  /\ IF Lookup(id) = NoRec
     THEN /\ stop' = [stop EXCEPT ![s].pc = "done", ![s].id = id, ![s].result = "NotFound"]
          /\ UNCHANGED <<timers, co, tr, active, events>>
     ELSE /\ Emit(id, "stopping")
          /\ \E early \in BOOLEAN :
               IF early
               THEN /\ stop' = [stop EXCEPT ![s].pc = "minwait", ![s].id = id,
                                            ![s].st = Lookup(id)]
                    /\ UNCHANGED <<timers, co, tr, active>>
               ELSE StopMixedEnter(s, Lookup(id), id)
  /\ UNCHANGED <<env, now, start, tlist, plist, mux, ff, fs>>

\* the minimum-runtime timer fires
StopMixedMinWait(s) ==
  /\ mode = "mixed"
  /\ stop[s].pc = "minwait"
  /\ StopMixedEnter(s, stop[s].st, stop[s].id)
  /\ UNCHANGED <<env, now, start, tlist, plist, mux, ff, events, fs>>

\* the 300 ms wait ends: the child closed, or the timer fired and the quit
\* request is written before the 30 s wait begins
StopMixedWait300(s) ==
  /\ mode = "mixed"
  /\ stop[s].pc = "wait300"
  /\ LET c == stop[s].st
     IN IF ProcessClosed(st_ff(c))
        THEN StopMixedFinish(s, c, stop[s].id) /\ UNCHANGED ff
        ELSE /\ ff' = [ff EXCEPT ![c]["main"] = QuitRequest(@)]
             /\ stop' = [stop EXCEPT ![s].pc = "wait30000"]
             /\ UNCHANGED <<timers, co, tr, active>>
  /\ UNCHANGED <<env, now, start, tlist, plist, mux, events, fs>>

\* the 30 s wait ends: the child closed, or the timer fired and consumers
\* and transports are closed before the 5 s wait begins
StopMixedWait30000(s) ==
  /\ mode = "mixed"
  /\ stop[s].pc = "wait30000"
  /\ LET c == stop[s].st
     IN IF ProcessClosed(st_ff(c))
        THEN StopMixedFinish(s, c, stop[s].id)
        ELSE /\ co' = CloseConsumers(c)
             /\ tr' = CloseTransports(c)
             /\ stop' = [stop EXCEPT ![s].pc = "wait5000"]
             /\ UNCHANGED <<timers, active>>
  /\ UNCHANGED <<env, now, start, tlist, plist, mux, ff, events, fs>>

\* the 5 s wait ends, the child closed or the timer fired: either way the
\* call goes on to clear the timers, close and delete (no signal is sent)
StopMixedWait5000(s) ==
  /\ mode = "mixed"
  /\ stop[s].pc = "wait5000"
  /\ StopMixedFinish(s, stop[s].st, stop[s].id)
  /\ UNCHANGED <<env, now, start, tlist, plist, mux, ff, events, fs>>

\* the duration probe ends: 'processing' and recordingStopped, reply
StopMixedProbe(s) ==
  /\ mode = "mixed"
  /\ stop[s].pc = "probe"
  /\ events' = [events EXCEPT ![stop[s].id] = @ \o <<"processing", "recordingStopped">>]
  /\ stop' = [stop EXCEPT ![s].pc = "done", ![s].result = "success"]
  /\ UNCHANGED <<env, now, active, start, tr, co, tlist, plist, mux, ff, timers, fs>>


MaxCloses == 1      \* producers that close

\* a producer of the room closes: the router closes every consumer of it
\* ('producerclose', which the recorder's listener only logs); nothing else
\* of a recording changes
ProducerClose(p) ==
  /\ mode = "mixed"
  /\ p \in roomProducers
  /\ Cardinality(Producers \ roomProducers) < MaxCloses
  /\ roomProducers' = roomProducers \ {p}
  /\ consumable' = consumable \ {p}
  /\ co' = [c \in StartCalls |-> [q \in Producers |->
              IF q = p /\ co[c][q] \in {"paused", "flowing"}
              THEN "producerclosed" ELSE co[c][q]]]
  /\ UNCHANGED <<mode, router, ui, pt, sd, mx, fl, tm, pe, rh, now, active, start, tr,
                 tlist, plist, mux, ff, timers, stop, events, fs>>

(***************************************************************************)
(* PerParticipantRecorder: one transport, consumer and muxer per producer  *)
(***************************************************************************)

\* router check, producer enumeration, id, per-recording directory
PerStart(c) ==
  /\ mode = "per"
  /\ StartArrives(c)
  /\ IF router = "none"
     THEN Fail(c, "RouterUnready") /\ UNCHANGED fs
     ELSE IF roomProducers = {}
     THEN Fail(c, "NoInputs") /\ UNCHANGED fs
     ELSE \E writable \in BOOLEAN :
            IF writable
            THEN /\ start' = [start EXCEPT ![c].pc = "bind", ![c].id = now,
                                           ![c].todo = videoProducers \o audioProducers]
                 /\ fs' = fs \cup {<<"baseDir", now>>}
            ELSE Fail(c, "OutputUnwritable") /\ UNCHANGED fs
  /\ UNCHANGED <<env, now, active, tr, co, tlist, plist, mux, ff, timers, stop, events>>

\* a spawn whose child cannot be started has no 'error' listener here: the
\* unhandled event ends the server, so the loop goes on only after the other two
PerOutcomes == BindOutcomes \cup {"spawnThrows"}

\* one iteration of the loop over the producers: bind, SDP file, spawn,
\* resume (and keyframe request), items.push
PerBind(c) ==
  /\ mode = "per"
  /\ start[c].pc = "bind"
  /\ start[c].todo # <<>>
  /\ LET p == Head(start[c].todo)
         rest == Tail(start[c].todo)
         next == [start EXCEPT ![c].todo = rest,
                               ![c].pc = IF rest = <<>> THEN "register" ELSE "bind"]
     IN IF p \notin consumable
        THEN start' = next /\ UNCHANGED <<tr, co, tlist, plist, mux, ff, fs>>
        ELSE \E o \in PerOutcomes :
          CASE o = "ok" ->
                 /\ start' = next
                 /\ tr' = [tr EXCEPT ![c][p] = "open"]
                 /\ co' = [co EXCEPT ![c][p] = "flowing"]
                 /\ ff' = [ff EXCEPT ![c][p] = Spawned("running", FALSE)]
                 /\ tlist' = [tlist EXCEPT ![c] = @ \cup {p}]
                 /\ plist' = [plist EXCEPT ![c] = @ \cup {<<c, p>>}]
                 /\ mux' = [mux EXCEPT ![c] = @ \cup {<<c, p>>}]
                 /\ fs' = fs \cup {<<"sdp", start[c].id, p>>}
            [] o = "failTransport" ->
                 /\ Fail(c, "error")
                 /\ UNCHANGED <<tr, co, tlist, plist, mux, ff, fs>>
            [] o = "failConsume" ->
                 /\ Fail(c, "error")
                 /\ tr' = [tr EXCEPT ![c][p] = "open"]
                 /\ UNCHANGED <<co, tlist, plist, mux, ff, fs>>
            [] o \in {"failConnect", "nocodec"} ->
                 \* no codec of the kind: ci is null and ci.payloadType throws
                 /\ Fail(c, "error")
                 /\ tr' = [tr EXCEPT ![c][p] = "open"]
                 /\ co' = [co EXCEPT ![c][p] = "paused"]
                 /\ UNCHANGED <<tlist, plist, mux, ff, fs>>
            [] o = "spawnThrows" ->
                 /\ Fail(c, "error")
                 /\ tr' = [tr EXCEPT ![c][p] = "open"]
                 /\ co' = [co EXCEPT ![c][p] = "paused"]
                 /\ fs' = fs \cup {<<"sdp", start[c].id, p>>}
                 /\ UNCHANGED <<tlist, plist, mux, ff>>
  /\ UNCHANGED <<env, now, active, timers, stop, events>>

\* this.active.set(recordingId, state); return recordingId
PerRegister(c) ==
  /\ mode = "per"
  /\ start[c].pc = "register"
  /\ active' = [active EXCEPT ![start[c].id] = c]
  /\ start' = [start EXCEPT ![c].pc = "done", ![c].result = "success"]
  /\ UNCHANGED <<env, now, tr, co, tlist, plist, mux, ff, timers, stop, events, fs>>

\* child.kill(signal): the signal reaches a child that is still running
Kill(f, signal) == IF f.st = "running" THEN [f EXCEPT !.sig = signal] ELSE f

KillAll(c, signal) ==
  [cc \in StartCalls |-> [x \in Slots |->
     IF <<cc, x>> \in mux[c] THEN Kill(ff[cc][x], signal) ELSE ff[cc][x]]]

\* PerParticipantRecorder.stop: SIGINT, closes, metadata.json, delete
PerStop(s, id) ==
  /\ mode = "per"
  /\ StopArrives(s)
  /\ IF Lookup(id) = NoRec
     THEN /\ stop' = [stop EXCEPT ![s].pc = "done", ![s].id = id, ![s].result = "NotFound"]
          /\ UNCHANGED <<ff, co, tr, active, fs>>
     ELSE LET c == Lookup(id)
          IN /\ ff' = KillAll(c, "SIGINT")
             /\ co' = CloseConsumers(c)
             /\ tr' = CloseTransports(c)
             /\ fs' = fs \cup {<<"metadata", id>>}
             /\ active' = [active EXCEPT ![id] = NoRec]
             /\ stop' = [stop EXCEPT ![s].pc = "done", ![s].id = id, ![s].st = c,
                                     ![s].result = "success"]
  /\ UNCHANGED <<env, now, start, tlist, plist, mux, timers, events>>

(***************************************************************************)
(* RecordingManager (one transport per kind, one muxer), called through    *)
(* RecordingHandler.startRecording and RecordingHandler.stopRecording      *)
(***************************************************************************)

hasVideo == \E p \in roomProducers : Kind(p) = "video"
hasAudio == \E p \in roomProducers : Kind(p) = "audio"

\* the handler's router checks, then the manager's prelude: id, directory,
\* producer kinds
RMStartRecording(c) ==
  /\ mode = "rm"
  /\ StartArrives(c)
  /\ IF router # "ready"
     THEN Fail(c, "RouterUnready") /\ UNCHANGED fs
     ELSE IF ~hasVideo /\ ~hasAudio
     THEN Fail(c, "NoInputs") /\ fs' = fs \cup {<<"outDir">>}
     ELSE /\ start' = [start EXCEPT ![c].pc = "ports", ![c].id = now]
          /\ fs' = fs \cup {<<"outDir">>}
  /\ UNCHANGED <<env, now, active, tr, co, tlist, plist, mux, ff, timers, stop, events>>

\* _getFreeBasePort, one transport per kind created and connected, then
\* the entry is stored (without ffmpeg yet)
RMTransports(c) ==
  /\ mode = "rm"
  /\ start[c].pc = "ports"
  /\ LET mine == {p \in Producers : \E q \in roomProducers : Kind(q) = Kind(p)}
         opened == [tr EXCEPT ![c] = [p \in Producers |->
                                         IF p \in mine THEN "open" ELSE "none"]]
     IN \E o \in {"ok", "failPort", "failConnect"} :
          CASE o = "ok" ->
                 /\ tr' = opened
                 /\ tlist' = [tlist EXCEPT ![c] = mine]
                 /\ active' = [active EXCEPT ![start[c].id] = c]
                 /\ start' = [start EXCEPT ![c].pc = "collect",
                                           ![c].todo = videoProducers \o audioProducers]
            [] o = "failPort" ->
                 /\ Fail(c, "error")
                 /\ UNCHANGED <<tr, tlist, active>>
            [] o = "failConnect" ->
                 /\ Fail(c, "error")
                 /\ tr' = opened
                 /\ UNCHANGED <<tlist, active>>
  /\ UNCHANGED <<env, now, co, plist, mux, ff, timers, stop, events, fs>>

\* one iteration of the loop of _connectAndCollectRtp over the producers;
\* a rejected consume is caught and the loop goes on
RMConsume(c) ==
  /\ mode = "rm"
  /\ start[c].pc = "collect"
  /\ start[c].todo # <<>>
  /\ LET p == Head(start[c].todo)
         rest == Tail(start[c].todo)
     IN /\ start' = [start EXCEPT ![c].todo = rest,
                                  ![c].pc = IF rest = <<>> THEN "ffmpeg" ELSE "collect"]
        /\ IF p \notin consumable \/ tr[c][p] # "open"
           THEN UNCHANGED <<co, plist>>
           ELSE \E ok \in BOOLEAN :
                  IF ok
                  THEN /\ co' = [co EXCEPT ![c][p] = "paused"]
                       /\ plist' = [plist EXCEPT ![c] = @ \cup {<<c, p>>}]
                  ELSE UNCHANGED <<co, plist>>
  /\ UNCHANGED <<env, now, active, tr, tlist, mux, ff, timers, stop, events, fs>>

\* new FFmpeg(...): _createProcess spawns the child and pipes the SDP to its
\* stdin; the looked-up entry, if any, receives the ffmpeg instance
RMFFmpeg(c) ==
  /\ mode = "rm"
  /\ start[c].pc = "ffmpeg"
  /\ \E o \in SpawnOutcomes :
       IF o = "throws"
       THEN Fail(c, "error") /\ UNCHANGED <<ff, mux>>
       ELSE LET rec == active[start[c].id]
            IN /\ ff' = [ff EXCEPT ![c]["main"] = Spawned(o, FALSE)]
               /\ IF rec = NoRec
                  THEN /\ start' = [start EXCEPT ![c].pc = "done", ![c].result = "success"]
                       /\ UNCHANGED mux
                  ELSE /\ start' = [start EXCEPT ![c].pc = "resume", ![c].rec = rec]
                       /\ mux' = [mux EXCEPT ![rec] = {<<c, "main">>}]
  /\ UNCHANGED <<env, now, active, tr, co, tlist, plist, timers, stop, events, fs>>

\* resume (and keyframe request) of every consumer of the entry, reply
RMResume(c) ==
  /\ mode = "rm"
  /\ start[c].pc = "resume"
  /\ co' = [cc \in StartCalls |-> [p \in Producers |->
              IF <<cc, p>> \in plist[start[c].rec] THEN Resume(co[cc][p]) ELSE co[cc][p]]]
  /\ start' = [start EXCEPT ![c].pc = "done", ![c].result = "success"]
  /\ UNCHANGED <<env, now, active, tr, tlist, plist, mux, ff, timers, stop, events, fs>>

\* RecordingManager.stopRecording: close consumers, kill, close transports,
\* delete; the handler turns 'Recording not found' into a reply
RMStopRecording(s, id) ==
  /\ mode = "rm"
  /\ StopArrives(s)
  /\ IF Lookup(id) = NoRec
     THEN /\ stop' = [stop EXCEPT ![s].pc = "done", ![s].id = id, ![s].result = "NotFound"]
          /\ UNCHANGED <<ff, co, tr, active>>
     ELSE LET c == Lookup(id)
          IN /\ co' = CloseConsumers(c)
             /\ ff' = KillAll(c, "SIGKILL")
             /\ tr' = CloseTransports(c)
             /\ active' = [active EXCEPT ![id] = NoRec]
             /\ stop' = [stop EXCEPT ![s].pc = "done", ![s].id = id, ![s].st = c,
                                     ![s].result = "success"]
  /\ UNCHANGED <<env, now, start, tlist, plist, mux, timers, events, fs>>


\* occurrences of x in a sequence
Count(seq, x) == Cardinality({i \in 1..Len(seq) : seq[i] = x})

(***************************************************************************)
(* The browser's RecordingManager: it asks the server for a mixed          *)
(* recording over the socket, keeps isRecording, recordingId and           *)
(* recordingStartTime, and runs checkRecordingHealth every 30 s.           *)
(***************************************************************************)

MaxUiStarts == 1    \* start requests the browser sends
MaxAge == 3         \* hours counted since recordingStartTime
StaleHours == 2     \* elapsed > 2 * 60 * 60 * 1000

server == <<mode, now, router, roomProducers, consumable, active, start, tr, co,
            tlist, plist, mux, ff, timers, stop, events, fs>>

\* startRecording: socket.request('startMixedRecording', ...)
UiStartRecording ==
  /\ ui.req = "none"
  /\ ~ui.hasId
  /\ ui.n < MaxUiStarts
  /\ ui' = [ui EXCEPT !.req = "sent", !.n = @ + 1]
  /\ UNCHANGED <<server, pt, sd, mx, fl, tm, pe, rh>>

\* the request reaches RecordingHandler.startMixedRecording
UiServerStart ==
  /\ ui.req = "sent"
  /\ StartMixedRecording(ui.n)

\* the reply: on success the id is kept and the 3 s fallback timer armed
UiStartReply ==
  /\ ui.req = "sent"
  /\ start[ui.n].pc = "done"
  /\ IF start[ui.n].result = "success"
     THEN ui' = [ui EXCEPT !.req = "none", !.hasId = TRUE, !.id = start[ui.n].id,
                           !.armed = TRUE]
     ELSE ui' = [ui EXCEPT !.req = "failed"]
  /\ UNCHANGED <<server, pt, sd, mx, fl, tm, pe, rh>>

\* the fallback timer of startRecording (handleRecordingStarted sets the
\* same fields when the server's recordingStarted comes first)
UiStartFallback ==
  /\ ui.armed
  /\ IF ~ui.isRecording /\ ui.hasId
     THEN ui' = [ui EXCEPT !.armed = FALSE, !.isRecording = TRUE, !.startSet = TRUE,
                           !.age = 0]
     ELSE ui' = [ui EXCEPT !.armed = FALSE]
  /\ UNCHANGED <<server, pt, sd, mx, fl, tm, pe, rh>>

\* an hour passes on the browser's clock
UiHour ==
  /\ ui.isRecording
  /\ ui.startSet
  /\ ui.age < MaxAge
  /\ ui' = [ui EXCEPT !.age = @ + 1]
  /\ UNCHANGED <<server, pt, sd, mx, fl, tm, pe, rh>>

\* stopRecording: socket.request('stopMixedRecording', { recording_id })
UiStopRecording ==
  /\ ui.stopReq = "none"
  /\ ui.hasId
  /\ ui' = [ui EXCEPT !.stopReq = "sent", !.stopId = ui.id]
  /\ UNCHANGED <<server, pt, sd, mx, fl, tm, pe, rh>>

\* the request reaches RecordingHandler.stopMixedRecording
UiServerStop ==
  /\ ui.stopReq = "sent"
  /\ StopMixedRecording(1, ui.stopId)

\* the reply: on success the 5 s fallback timer is armed
UiStopReply ==
  /\ ui.stopReq = "sent"
  /\ stop[1].pc = "done"
  /\ IF stop[1].result = "success"
     THEN ui' = [ui EXCEPT !.stopReq = "ok", !.stopArmed = TRUE]
     ELSE ui' = [ui EXCEPT !.stopReq = "failed"]
  /\ UNCHANGED <<server, pt, sd, mx, fl, tm, pe, rh>>

\* the fallback timer of stopRecording
UiStopFallback ==
  /\ ui.stopArmed
  /\ IF ui.isRecording /\ ui.hasId
     THEN ui' = [ui EXCEPT !.stopArmed = FALSE, !.isRecording = FALSE]
     ELSE ui' = [ui EXCEPT !.stopArmed = FALSE]
  /\ UNCHANGED <<server, pt, sd, mx, fl, tm, pe, rh>>

\* handleRecordingStopped, on a recordingStopped event for this.recordingId
HandleRecordingStopped ==
  /\ ui.hasId
  /\ ui.isRecording
  /\ Count(events[ui.id], "recordingStopped") > 0
  /\ ui' = [ui EXCEPT !.isRecording = FALSE]
  /\ UNCHANGED <<server, pt, sd, mx, fl, tm, pe, rh>>

\* resetRecordingState: the browser's fields and timers only
ResetRecordingState(u) ==
  [u EXCEPT !.isRecording = FALSE, !.hasId = FALSE, !.startSet = FALSE, !.age = 0]

\* checkRecordingHealth, every 30 s
Stale(u) == u.isRecording /\ u.startSet /\ u.age > StaleHours
CheckRecordingHealth ==
  /\ Stale(ui)
  /\ ui' = ResetRecordingState(ui)
  /\ UNCHANGED <<server, pt, sd, mx, fl, tm, pe, rh>>

(***************************************************************************)
(* The minimum-runtime floor of stopMixedRecording, with the clock in      *)
(* seconds: state.startedAt, state.ffmpegStartedAt (set by                 *)
(* checkFFmpegReady when the muxer logs frames, or by the 3 s fallback     *)
(* timer), and the timer the stop call waits on.                           *)
(***************************************************************************)

MaxSec == 10        \* the clock runs over 0..MaxSec
MinRunSec == 5      \* minRunMs = 5000
FallbackSec == 3    \* setTimeout(..., 3000)

held == <<mode, now, router, roomProducers, consumable, active, start, tr, co,
          tlist, plist, mux, ff, timers, stop, events, fs, ui, pt, sd, mx, fl, pe, rh>>

\* a timer that is due fires before the clock moves on
TimerDue ==
  \/ tm.phase = "held" /\ tm.clk >= tm.wakeAt
  \/ tm.phase \in {"recording", "held"} /\ tm.ffmpegStartedAt = NoTime /\ tm.pid
       /\ tm.clk >= tm.startedAt + FallbackSec

FloorTick ==
  /\ tm.clk < MaxSec
  /\ ~TimerDue
  /\ tm.phase # "replied"
  /\ tm' = [tm EXCEPT !.clk = @ + 1]
  /\ UNCHANGED held

\* startMixedRecording builds the state object: startedAt: Date.now(),
\* ffmpegStartedAt: null; the child it spawned has a pid, or none when it
\* could not be started; the keyframe, monitor and readiness intervals are
\* set; the call returns success
FloorStart ==
  /\ tm.phase = "none"
  /\ tm.clk + FallbackSec + MinRunSec <= MaxSec
  /\ \E pid \in BOOLEAN :
       tm' = [tm EXCEPT !.phase = "recording", !.startedAt = tm.clk, !.pid = pid,
                        !.keyframeIntervals = TRUE, !.monitorInterval = TRUE,
                        !.ffmpegCheckInterval = TRUE,
                        !.emitted = Append(@, "starting")]
  /\ UNCHANGED held

\* checkFFmpegReady sees a frame line (any time), or the fallback timer
\* fires, while the entry is registered and currentState.ff.pid is set:
\* currentState.ffmpegStartedAt = Date.now(), emit recordingStarted,
\* clearInterval(ffmpegCheckInterval)
CheckFFmpegReady ==
  /\ tm.phase \in {"recording", "held"}
  /\ tm.ffmpegStartedAt = NoTime
  /\ tm.pid
  \* hasStarted: the stderr listener saw a line with frame= and fps=
  /\ \E frame \in BOOLEAN :
       /\ frame \/ tm.clk >= tm.startedAt + FallbackSec
       /\ tm' = [tm EXCEPT !.ffmpegStartedAt = tm.clk, !.recordingStarted = @ + 1,
                           !.ffmpegCheckInterval = FALSE, !.hasStarted = frame,
                           !.emitted = Append(@, "recordingStarted")]
  /\ UNCHANGED held

\* st.ffmpegStartedAt || st.startedAt
actualStartTime(t) == IF t.ffmpegStartedAt # NoTime THEN t.ffmpegStartedAt ELSE t.startedAt

\* stopMixedRecording up to the minimum-runtime timer; 'stopping' is emitted
\* as the call begins
FloorStop ==
  /\ tm.phase = "recording"
  /\ LET actualElapsed == tm.clk - actualStartTime(tm)
     IN IF actualElapsed < MinRunSec
        THEN tm' = [tm EXCEPT !.phase = "held", !.reqAt = tm.clk,
                              !.actual_elapsed = actualElapsed,
                              !.emitted = Append(@, "stopping"),
                              !.wakeAt = tm.clk + (MinRunSec - actualElapsed)]
        ELSE tm' = [tm EXCEPT !.phase = "proceeded", !.reqAt = tm.clk, !.goAt = tm.clk,
                              !.emitted = Append(@, "stopping"),
                              !.actual_elapsed = actualElapsed]
  /\ UNCHANGED held

\* the timer fires: the call goes on to _waitForProcessClose, the quit
\* request and the closes
FloorWake ==
  /\ tm.phase = "held"
  /\ tm.clk = tm.wakeAt
  /\ tm' = [tm EXCEPT !.phase = "proceeded", !.goAt = tm.clk]
  /\ UNCHANGED held

\* the muxer exits during the waits that follow (300 ms, 30 s, 5 s), the
\* entry is deleted, ffprobe reads the duration of the output (the time the
\* muxer ran since it was seen started) and the call replies duration and
\* actual_elapsed, the latter computed when the call began
FloorReply ==
  /\ tm.phase = "proceeded"
  \* st.keyframeIntervals and st.monitorInterval are cleared before the delete
  /\ tm' = [tm EXCEPT !.phase = "replied", !.exitAt = tm.clk,
                      !.keyframeIntervals = FALSE, !.monitorInterval = FALSE,
                      !.emitted = @ \o <<"processing", "recordingStopped">>,
                      !.duration = tm.clk - actualStartTime(tm)]
  /\ UNCHANGED held

\* the 100 ms readiness interval fires with the entry gone: this.active.get
\* returns undefined, ffmpegReady stays false and the interval stays set
LateCheck ==
  /\ tm.phase = "replied"
  /\ tm.ffmpegCheckInterval
  /\ tm.lateChecks = 0
  /\ tm' = [tm EXCEPT !.lateChecks = 1]
  /\ UNCHANGED held

(***************************************************************************)
(* The port allocators: _getFreePort (MixedRecordingManager and            *)
(* PerParticipantRecorder) and RecordingManager._getFreeBasePort, and the  *)
(* endpoints connected to the ports they return.                           *)
(***************************************************************************)

MaxPort == 4        \* UDP ports 0..MaxPort stand for the random candidates
Ports == 0..MaxPort

others == <<mode, now, router, roomProducers, consumable, active, start, tr, co,
          tlist, plist, mux, ff, timers, stop, events, fs, ui, sd, mx, fl, tm, pe, rh>>

\* isPortFree(port): a socket binds the port, then closes it
isPortFree(port) == port \notin pt.busy

EndpointsOf(m) == IF m = "mixed" THEN {"mv", "ma"} ELSE {"rv", "ra"}

\* another process binds a free port
PortTaken(port) ==
  /\ port \in Ports
  /\ isPortFree(port)
  /\ Cardinality(pt.busy) < 2
  /\ pt.listening = {}
  /\ \A e \in Endpoints : pt.ep[e] = "none"
  /\ pt' = [pt EXCEPT !.busy = @ \cup {port}]
  /\ UNCHANGED others

\* _getFreePort: the first random candidate that isPortFree
GetFreePort(e) ==
  /\ e \in EndpointsOf("mixed")
  /\ pt.ep[e] = "none"
  /\ \E candidate \in Ports :
       /\ candidate + 1 <= MaxPort
       /\ isPortFree(candidate)
       /\ pt' = [pt EXCEPT !.port[e] = candidate, !.probed[e] = {candidate},
                           !.ep[e] = "allocated"]
  /\ UNCHANGED others

\* _getFreeBasePort: the first random candidate with candidate and
\* candidate + 2 free; video on the base port, audio on base + 2
GetFreeBasePort ==
  /\ pt.ep["rv"] = "none" /\ pt.ep["ra"] = "none"
  /\ \E candidate \in Ports :
       /\ candidate + 3 <= MaxPort
       /\ isPortFree(candidate) /\ isPortFree(candidate + 2)
       /\ pt' = [pt EXCEPT !.port["rv"] = candidate, !.port["ra"] = candidate + 2,
                           !.probed["rv"] = {candidate, candidate + 2},
                           !.probed["ra"] = {candidate, candidate + 2},
                           !.ep["rv"] = "allocated", !.ep["ra"] = "allocated"]
  /\ UNCHANGED others

\* the media section of an input's SDP, kept as the ports it declares:
\* _buildPerInputSdp writes m=<kind> <port> and a=rtcp:<port + 1>
buildPerInputSdp(port) == [rtp |-> port, rtcp |-> port + 1]
\* createSdpText writes m=<kind> <port> and no a=rtcp line
createSdpText_Media(port) == [rtp |-> port, rtcp |-> NoPort]

\* transport.connect({ ip: '127.0.0.1', port, rtcpPort: port + 1 }), and the
\* media section written for the input from the same port
Connect(e) ==
  /\ pt.ep[e] = "allocated"
  /\ pt' = [pt EXCEPT !.ep[e] = "live",
                      !.conn[e] = [rtp |-> pt.port[e], rtcp |-> pt.port[e] + 1],
                      !.sdp[e] = IF e \in EndpointsOf("mixed")
                                 THEN buildPerInputSdp(pt.port[e])
                                 ELSE createSdpText_Media(pt.port[e])]
  /\ UNCHANGED others

\* the muxer of a recording starts and binds the RTP and RTCP ports of the
\* SDP it was given
PortsOf(m) == UNION {{pt.port[e], pt.port[e] + 1} : e \in {x \in EndpointsOf(m) : pt.ep[x] = "live"}}
MuxerListens(m) ==
  /\ m \notin pt.listening
  /\ \E e \in EndpointsOf(m) : pt.ep[e] = "live"
  /\ \A e \in EndpointsOf(m) : pt.ep[e] # "allocated"
  /\ pt' = [pt EXCEPT !.listening = @ \cup {m}, !.busy = @ \cup PortsOf(m)]
  /\ UNCHANGED others

\* the recording is stopped: transports closed, the muxer gone
EndpointsClosed(m) ==
  /\ m \in pt.listening
  /\ \E e \in EndpointsOf(m) : pt.ep[e] = "live"
  /\ pt' = [pt EXCEPT !.ep = [e \in Endpoints |->
                                 IF e \in EndpointsOf(m) /\ @[e] = "live" THEN "closed" ELSE @[e]],
                      !.busy = @ \ PortsOf(m)]
  /\ UNCHANGED others

(***************************************************************************)
(* The retry loops of the allocators, probe by probe: _getFreePort tries   *)
(* 200 random candidates, _getFreeBasePort 50 random pairs; each probe     *)
(* opens a UDP socket, binds it and closes it in the callback.             *)
(***************************************************************************)

BasePortAttempts == 50     \* for (let attempts = 0; attempts < 50; ...)
FreePortAttempts == 200    \* for (let i = 0; i < 200; ...)

\* iterations of the loop of allocator fn
ProbeLimit_Short(fn) == BasePortAttempts - 1
ProbeLimit(fn) == IF fn = "base" THEN BasePortAttempts ELSE FreePortAttempts

\* probes of one iteration: candidate, and candidate + 2 for the base port
ProbesPerTry(fn) == IF fn = "base" THEN 2 ELSE 1

\* _getFreePort() or _getFreeBasePort() is called
AllocCall(fn) ==
  /\ pt.al.pc = "idle"
  /\ pt' = [pt EXCEPT !.al.fn = fn, !.al.pc = "pick"]
  /\ UNCHANGED others

\* the loop test, then the random candidate; past the last iteration the
\* function throws
PickCandidate ==
  /\ pt.al.pc = "pick"
  /\ IF pt.al.attempts < ProbeLimit(pt.al.fn)
     THEN \E candidate \in Ports :
            /\ candidate + 2 * (ProbesPerTry(pt.al.fn) - 1) <= MaxPort
            /\ pt' = [pt EXCEPT !.al.candidate = candidate, !.al.ok = <<>>,
                                !.al.pc = "bind"]
     ELSE pt' = [pt EXCEPT !.al.pc = "exhausted"]
  /\ UNCHANGED others

\* isPortFree(port): dgram.createSocket, sock.bind
ProbeBind ==
  /\ pt.al.pc = "bind"
  /\ LET port == pt.al.candidate + 2 * Len(pt.al.ok)
     IN pt' = [pt EXCEPT !.al.socks = @ \cup {port}, !.al.probes = @ + 1,
                         !.al.pending = isPortFree(port), !.al.pc = "callback"]
  /\ UNCHANGED others

\* the 'error' listener or the bind callback: sock.close(), resolve; after
\* the last probe of the iteration the candidate is returned when every
\* probe succeeded, and the loop goes on otherwise
ProbeCallback ==
  /\ pt.al.pc = "callback"
  /\ LET port == pt.al.candidate + 2 * Len(pt.al.ok)
         ok == Append(pt.al.ok, pt.al.pending)
         last == Len(ok) = ProbesPerTry(pt.al.fn)
         free == \A j \in DOMAIN ok : ok[j]
     IN pt' = [pt EXCEPT
                 !.al.socks = @ \ {port},
                 !.al.good = IF pt.al.pending THEN @ \cup {port} ELSE @,
                 !.al.ok = ok,
                 !.al.attempts = IF last /\ ~free THEN @ + 1 ELSE @,
                 !.al.result = IF last /\ free THEN pt.al.candidate ELSE @,
                 !.al.pc = IF ~last THEN "bind" ELSE IF free THEN "returned" ELSE "pick"]
  /\ UNCHANGED others

(***************************************************************************)
(* The SDP RecordingManager gives its muxer: which RTP parameters feed     *)
(* createSdpText, in recording-manager.js (the producers') and in          *)
(* ffmpeg.js (the consumers', collected by _connectAndCollectRtp).         *)
(***************************************************************************)

unsdp == <<mode, now, router, roomProducers, consumable, active, start, tr, co,
           tlist, plist, mux, ff, timers, stop, events, fs, ui, pt, mx, fl, tm, pe, rh>>

\* RTP parameters are kept as the payload type of their codecs[0], which is
\* what getCodecInfoFromRtpParameters reads

\* sd.log is the sequence of calls a run of startRecording and stopRecording
\* makes on the router, the transports, the consumers and the muxer, in the
\* order of the statements that make them
Ev(e, x) == [ev |-> e, on |-> x]
SdpKinds == <<"video", "audio">>
\* the calls of the iterations of a loop, one after the other
RECURSIVE Flat(_)
Flat(ss) == IF ss = <<>> THEN <<>> ELSE Head(ss) \o Flat(Tail(ss))
\* create and connect of the transport of each kind
TransportCalls ==
  Flat([j \in DOMAIN SdpKinds |-> <<Ev("create", SdpKinds[j]), Ev("connect", SdpKinds[j])>>])
AttachedSeq == SelectSeq(SdpInputs, LAMBDA p : p \in sd.attached)

\* recording-manager.js startRecording: videoCodec and audioCodec are the
\* rtpParameters of the first producer of each kind; the class with one
\* transport ("single") has created it by then and never connects it
SdpFromProducers ==
  /\ sd.variant \in {"producers", "single"}
  /\ sd.pc = "idle"
  /\ LET first(k) == LET ps == SelectSeq(SdpInputs, LAMBDA p : SdpKind(p) = k)
                     IN IF ps = <<>> THEN NoPT ELSE sd.producerPT[Head(ps)]
     IN sd' = [sd EXCEPT !.videoCodec = first("video"), !.audioCodec = first("audio"),
                         !.pc = "sdp",
                         !.log = IF sd.variant = "single"
                                 THEN @ \o <<Ev("create", "both")>> ELSE @]
  /\ UNCHANGED unsdp

\* ffmpeg.js startRecording creates and connects one transport per kind and
\* calls _connectAndCollectRtp before it builds the muxer
SdpFromConsumers ==
  /\ sd.variant = "consumers"
  /\ sd.pc = "idle"
  /\ sd' = [sd EXCEPT !.pc = "collect", !.todo = SdpInputs,
                      !.log = @ \o TransportCalls]
  /\ UNCHANGED unsdp

\* one iteration of the loop of _connectAndCollectRtp: transport.consume,
\* then videoRtpParameters / audioRtpParameters = consumer.rtpParameters
CollectRtp ==
  /\ sd.pc = "collect"
  /\ sd.todo # <<>>
  /\ LET p == Head(sd.todo)
         more == Tail(sd.todo)
     IN sd' = [sd EXCEPT !.todo = more,
                         !.attached = @ \cup {p},
                         !.videoCodec = IF SdpKind(p) = "video" THEN sd.consumerPT[p] ELSE @,
                         !.audioCodec = IF SdpKind(p) = "audio" THEN sd.consumerPT[p] ELSE @,
                         !.log = @ \o <<Ev("consumePaused", p)>>,
                         !.pc = IF more = <<>> THEN "sdp" ELSE "collect"]
  /\ UNCHANGED unsdp

\* new FFmpeg(rtpParameters): createSdpText writes the m= and a=rtpmap lines,
\* then _createProcess spawns the muxer
createSdpText ==
  /\ sd.pc = "sdp"
  /\ sd' = [sd EXCEPT !.sdpVideo = sd.videoCodec,
                      !.sdpAudio = sd.audioCodec,
                      !.log = @ \o <<Ev("sdp", "muxer"), Ev("spawn", "muxer")>>,
                      !.pc = CASE sd.variant = "producers" -> "transports"
                               [] sd.variant = "single" -> "connect"
                               [] OTHER -> "resume",
                      !.todo = IF sd.variant = "single" THEN SdpInputs ELSE <<>>]
  /\ UNCHANGED unsdp

\* recording-manager.js startRecording, after new FFmpeg: one plain transport
\* per kind, created and connected to the muxer's port
CreatePlainTransports ==
  /\ sd.pc = "transports"
  /\ sd' = [sd EXCEPT !.log = @ \o TransportCalls,
                      !.pc = "connect", !.todo = SdpInputs]
  /\ UNCHANGED unsdp

\* one iteration of the loop of connectProducersToRecording
\* (recording-manager.js): transport.consume, consumer.resume; the class with
\* one transport consumes with paused: false
ConnectProducersToRecording ==
  /\ sd.pc = "connect"
  /\ sd.todo # <<>>
  /\ LET p == Head(sd.todo)
         more == Tail(sd.todo)
     IN sd' = [sd EXCEPT !.todo = more, !.attached = @ \cup {p},
                         !.log = @ \o <<Ev(IF sd.variant = "single" THEN "consumeFlowing"
                                           ELSE "consumePaused", p),
                                        Ev("resume", p)>>,
                         !.pc = IF more = <<>> THEN "done" ELSE "connect"]
  /\ UNCHANGED unsdp

\* ffmpeg.js startRecording, after new FFmpeg: every consumer is resumed and
\* a key frame is requested of the video ones
ResumeConsumers ==
  /\ sd.pc = "resume"
  /\ sd' = [sd EXCEPT !.log = @ \o Flat([j \in DOMAIN AttachedSeq |->
                                               IF SdpKind(AttachedSeq[j]) = "video"
                                               THEN <<Ev("resume", AttachedSeq[j]),
                                                      Ev("keyframe", AttachedSeq[j])>>
                                               ELSE <<Ev("resume", AttachedSeq[j])>>]),
                      !.pc = "done"]
  /\ UNCHANGED unsdp

\* RecordingManager.stopRecording of a registered recording: the consumers
\* are closed, FFmpeg.kill sends SIGKILL, the transports are closed
SdpStopRecording ==
  /\ sd.pc = "done"
  /\ LET transports == IF sd.variant = "single" THEN <<"both">> ELSE SdpKinds
     IN sd' = [sd EXCEPT !.log = @ \o [j \in DOMAIN AttachedSeq |->
                                         Ev("closeConsumer", AttachedSeq[j])]
                                   \o <<Ev("kill", "muxer")>>
                                   \o [j \in DOMAIN transports |->
                                         Ev("closeTransport", transports[j])],
                         !.pc = "stopped"]
  /\ UNCHANGED unsdp

(***************************************************************************)
(* startMixedRecording over a room of V video and A audio producers:       *)
(* producer selection, the inputs bound, _computeLayout,                   *)
(* _buildFilterComplex and the -map options of the argument vector.        *)
(***************************************************************************)

MaxVideos == 5      \* video producers in the room: 0..MaxVideos
MaxAudios == 2      \* audio producers in the room: 0..MaxAudios
Widths == {4, 5}    \* target widths
Heights == {2, 3}   \* target heights
MaxSelectedVideos == 4    \* videoProducers.slice(0, 4)

unmix == <<mode, now, router, roomProducers, consumable, active, start, tr, co,
           tlist, plist, mux, ff, timers, stop, events, fs, ui, pt, sd, fl, tm, pe, rh>>

\* the producers of the room in enumeration order
VideoProducersOf(n) == [i \in 1..n |-> <<"video", i>>]
AudioProducersOf(n) == [j \in 1..n |-> <<"audio", j>>]

\* videoProducers.slice(0, 4)
selectedVideos_All(vs) == vs
selectedVideos(vs) ==
  IF Len(vs) <= MaxSelectedVideos THEN vs ELSE SubSeq(vs, 1, MaxSelectedVideos)

\* _computeLayout(numVideos, width, height); \div is Math.floor of the
\* quotient
computeLayout_Grid(numVideos, width, height) ==
  [rows |-> 2, cols |-> 2, cellW |-> width \div 2, cellH |-> height \div 2]
computeLayout(numVideos, width, height) ==
  IF numVideos <= 1 THEN [rows |-> 1, cols |-> 1, cellW |-> width, cellH |-> height]
  ELSE IF numVideos = 2
       THEN [rows |-> 1, cols |-> 2, cellW |-> width \div 2, cellH |-> height]
  ELSE [rows |-> 2, cols |-> 2, cellW |-> width \div 2, cellH |-> height \div 2]

\* `${c * cellW}_${r * cellH}`: the top-left corner of the cell in column c
\* of row r
layoutPart_Transposed(c, r, cellW, cellH) == <<r * cellW, c * cellH>>
layoutPart(c, r, cellW, cellH) == <<c * cellW, r * cellH>>

\* _buildFilterComplex: the stages joined by ';', each kept as a tuple of
\* its name and what it is built from
buildFilterComplex(videoCount, audioCount, targetW, targetH) ==
  LET lay == computeLayout(videoCount, targetW, targetH)
      scales == [i \in 1..videoCount |-> <<"scale", i - 1, lay.cellW, lay.cellH>>]
      cells == {idx \in 0..(lay.rows * lay.cols - 1) : idx < videoCount}
      layoutParts == [k \in 1..Cardinality(cells) |->
                        layoutPart((k - 1) % lay.cols, (k - 1) \div lay.cols,
                                   lay.cellW, lay.cellH)]
      video == scales \o << <<"xstack", videoCount, layoutParts>>, <<"vout">> >>
      resamples == [j \in 1..audioCount |-> <<"aresample", videoCount + j - 1>>]
      audio == IF audioCount = 0 THEN <<>>
               ELSE IF audioCount = 1 THEN resamples \o << <<"aout">> >>
               ELSE resamples \o << <<"amix", audioCount>>, <<"aout">> >>
  IN video \o audio

\* enumeration of the producers, the throw on an empty room, the selection
MixSelect ==
  /\ mx.pc = "idle"
  /\ IF mx.V = 0 /\ mx.A = 0
     THEN mx' = [mx EXCEPT !.pc = "NoInputs"]
     ELSE mx' = [mx EXCEPT !.pc = "bind",
                           !.todo = selectedVideos(VideoProducersOf(mx.V))
                                      \o AudioProducersOf(mx.A)]
  /\ UNCHANGED unmix

\* one iteration of the binding loops: a producer the router cannot
\* consume is skipped, any other becomes an input
MixInput ==
  /\ mx.pc = "bind"
  /\ mx.todo # <<>>
  /\ LET p == Head(mx.todo)
     IN mx' = [mx EXCEPT !.todo = Tail(@),
                         !.inputs = IF p \in mx.bad THEN @ ELSE Append(@, p)]
  /\ UNCHANGED unmix

\* inputs.length check, videoCount and audioCount, the filter graph and the
\* -map options
MixArgs ==
  /\ mx.pc = "bind"
  /\ mx.todo = <<>>
  /\ IF mx.inputs = <<>>
     THEN mx' = [mx EXCEPT !.pc = "NoInputs"]
     ELSE LET videoCount == Len(SelectSeq(mx.inputs, LAMBDA i : i[1] = "video"))
              audioCount == Len(SelectSeq(mx.inputs, LAMBDA i : i[1] = "audio"))
          IN mx' = [mx EXCEPT
                      !.pc = "spawn",
                      !.videoCount = videoCount,
                      !.audioCount = audioCount,
                      !.layout = computeLayout(videoCount, mx.width, mx.height),
                      !.filter = buildFilterComplex(videoCount, audioCount, mx.width, mx.height),
                      !.maps = IF audioCount > 0 THEN <<"vout", "aout">> ELSE <<"vout">>]
  /\ UNCHANGED unmix

(***************************************************************************)
(* The output file of RecordingManager (ffmpeg.js): the path startRecording *)
(* stores and stopRecording checks, and the path FFmpeg._commandArgs gives  *)
(* the muxer.  A path is a directory and a name; a name is its prefix, the  *)
(* Date.now() in it and its extension.                                      *)
(***************************************************************************)

MaxStamp == 3       \* Date.now() takes the values 0..MaxStamp
RecordDirs == {"files", "elsewhere"}   \* RECORD_FILE_LOCATION_PATH || './files'

unfile == <<mode, now, router, roomProducers, consumable, active, start, tr, co,
            tlist, plist, mux, ff, timers, stop, events, fs, ui, pt, sd, mx, tm, pe, rh>>

FileTick ==
  /\ fl.clk < MaxStamp
  /\ fl.pc # "stopped"
  /\ fl' = [fl EXCEPT !.clk = @ + 1]
  /\ UNCHANGED unfile

\* startRecording: recordingId = `rec-${Date.now()}`, fileName =
\* `recording-${recordingId}.webm`, filePath = path.join('files', fileName)
FileStartRecording ==
  /\ fl.pc = "idle"
  /\ fl' = [fl EXCEPT !.pc = "started",
                      !.filePath = [dir |-> "files",
                                    name |-> <<"recording-rec-", fl.clk, ".webm">>]]
  /\ UNCHANGED unfile

\* new FFmpeg(...): _commandArgs ends with
\* `${RECORD_FILE_LOCATION_PATH}/recording-${Date.now()}.mp4`
commandArgsOutput(dir, stamp) == [dir |-> dir, name |-> <<"recording-", stamp, ".mp4">>]
FileSpawn ==
  /\ fl.pc = "started"
  /\ fl' = [fl EXCEPT !.pc = "recording", !.output = commandArgsOutput(fl.recordDir, fl.clk)]
  /\ UNCHANGED unfile

\* the muxer writes its output file
MuxerWrites ==
  /\ fl.pc = "recording"
  /\ fl.output \notin fl.written
  /\ fl' = [fl EXCEPT !.written = @ \cup {fl.output}]
  /\ UNCHANGED unfile

\* stopRecording: fileExists = fs.existsSync(recording.filePath)
FileStopRecording ==
  /\ fl.pc = "recording"
  /\ fl' = [fl EXCEPT !.pc = "stopped", !.file_exists = (fl.filePath \in fl.written)]
  /\ UNCHANGED unfile

(***************************************************************************)
(* PerParticipantRecorder.stop on one registered recording, item by item:  *)
(* the calls it makes on each item's muxer, consumer and transport, the    *)
(* metadata it builds and writes, and the removal of the entry.            *)
(***************************************************************************)

MaxItems == 2       \* items of the recording: 0..MaxItems
MaxStopClock == 2   \* Date.now() takes the values 0..MaxStopClock

unper == <<mode, now, router, roomProducers, consumable, active, start, tr, co,
           tlist, plist, mux, ff, timers, stop, events, fs, ui, pt, sd, mx, fl, tm, rh>>

PerTick ==
  /\ pe.clk < MaxStopClock
  /\ pe' = [pe EXCEPT !.clk = @ + 1]
  /\ UNCHANGED unper

\* start: one item per consumable producer, each with its own output file;
\* state.startedAt = Date.now(); this.active.set
PerStarted ==
  /\ pe.pc = "idle"
  /\ \E n \in 0..MaxItems :
       pe' = [pe EXCEPT !.items = [k \in 1..n |-> [outFile |-> k, ff |-> "running",
                                                   sig |-> "none", consumer |-> "open",
                                                   transport |-> "open"]],
                        !.startedAt = pe.clk, !.registered = TRUE, !.pc = "recording"]
  /\ UNCHANGED unper

\* the muxer of an item ends by itself
PerMuxerExit ==
  /\ pe.pc \in {"recording", "loop"}
  /\ \E k \in DOMAIN pe.items :
       /\ pe.items[k].ff = "running"
       /\ pe.items[k].sig = "none"
       /\ pe' = [pe EXCEPT !.items[k].ff = "exited"]
  /\ UNCHANGED unper

\* stop(recordingId) finds the entry
PerStopEnter ==
  /\ pe.pc = "recording"
  /\ pe.registered
  /\ pe' = [pe EXCEPT !.pc = IF pe.items = <<>> THEN "finish" ELSE "loop", !.i = 1]
  /\ UNCHANGED unper

\* the statements of one iteration of the loop over st.items, in order
StopItemCalls_CloseFirst == <<"closeConsumer", "closeTransport", "kill">>
StopItemCalls == <<"kill", "closeConsumer", "closeTransport">>

\* one iteration: each call sits in its own try/catch, so a close that
\* throws does not keep the next call from being made
PerStopItem ==
  /\ pe.pc = "loop"
  /\ \E cOk \in BOOLEAN, tOk \in BOOLEAN :
       LET k == pe.i
           it == pe.items[k]
           made == {StopItemCalls[j] : j \in DOMAIN StopItemCalls}
       IN pe' = [pe EXCEPT
            !.calls = @ \o [j \in DOMAIN StopItemCalls |-> Ev(StopItemCalls[j], k)],
            !.items[k] = [it EXCEPT
               !.sig = IF "kill" \in made /\ it.ff = "running" THEN "SIGINT" ELSE @,
               !.consumer = IF "closeConsumer" \in made
                            THEN (IF cOk THEN "closed" ELSE "failed") ELSE @,
               !.transport = IF "closeTransport" \in made
                             THEN (IF tOk THEN "closed" ELSE "failed") ELSE @],
            !.i = k + 1,
            !.pc = IF k = Len(pe.items) THEN "finish" ELSE "loop"]
  /\ UNCHANGED unper

\* st.items.map((it) => it.outFile)
PerFiles(items) == [k \in DOMAIN items |-> items[k].outFile]

\* endedAt, metadata, writeFileSync in a try/catch, this.active.delete
PerStopFinish ==
  /\ pe.pc = "finish"
  /\ \E written \in BOOLEAN :
       LET endedAt == pe.clk
           metadata == [startedAt |-> pe.startedAt, endedAt |-> endedAt,
                        durationMs |-> endedAt - pe.startedAt,
                        files |-> PerFiles(pe.items)]
       IN pe' = [pe EXCEPT !.metadata = metadata,
                           !.file = IF written THEN metadata ELSE @,
                           !.registered = FALSE, !.pc = "done"]
  /\ UNCHANGED unper

(***************************************************************************)
(* Properties                                                              *)
(***************************************************************************)

\* a consumer or a transport held by state object c goes from open to closed
NewlyClosed(c) ==
  \/ \E p \in tlist[c] : tr[c][p] = "open" /\ tr'[c][p] = "closed"
  \/ \E pr \in plist[c] : co[pr[1]][pr[2]] \in {"paused", "flowing"}
                          /\ co'[pr[1]][pr[2]] = "closed"

AllClosedIn(c, trs, cos) ==
  /\ \A p \in tlist[c] : trs[c][p] = "closed"
  /\ \A pr \in plist[c] : cos[pr[1]][pr[2]] = "closed"
AllClosed(c) == AllClosedIn(c, tr, co)

\* a process that has exited, or has been asked or signaled to stop
Stopping(f) == f.st # "running" \/ f.q \/ f.sig # "none"

\* C1: in stopMixedRecording, a consumer or transport of a recording whose
\* muxer is still running is closed only after the quit request was written
\* to the muxer, and only in the step in which the 30 s wait that follows
\* the quit request times out.
C1_QuitBeforeClose ==
  [][\A c \in StartCalls :
       (mode = "mixed" /\ NewlyClosed(c) /\ st_ff(c).st = "running")
         => /\ st_ff(c).q
            /\ \E s \in StopCalls : /\ stop[s].st = c
                                    /\ stop[s].pc = "wait30000"
                                    /\ stop'[s].pc = "wait5000"]_vars

\* the grace wait has timed out: resources closed, the muxer still running
C1_Witness ==
  \E s \in StopCalls :
    /\ mode = "mixed"
    /\ stop[s].pc = "wait5000"
    /\ st_ff(stop[s].st).st = "running"
    /\ st_ff(stop[s].st).q
    /\ plist[stop[s].st] # {}
    /\ AllClosed(stop[s].st)

\* C2: a stop is idempotent: however many stopMixedRecording calls are made
\* for a recording id, the stop protocol runs once per registered recording
\* ('stopping' and recordingStopped are emitted at most once for each
\* 'starting').
C2_StopOnce ==
  \A i \in Ids :
    /\ Count(events[i], "stopping") <= Count(events[i], "starting")
    /\ Count(events[i], "recordingStopped") <= Count(events[i], "starting")

\* C3: a stop for an id that is not in the Registry answers NotFound and
\* changes nothing: the Registry, every consumer, transport and muxer, the
\* timers, the emitted events and the files stay as they were.
C3_NotFoundNoEffect ==
  [][\A s \in StopCalls :
       (stop[s].pc = "idle" /\ stop'[s].pc # "idle" /\ active[stop'[s].id] = NoRec)
         => /\ stop'[s].pc = "done"
            /\ stop'[s].result = "NotFound"
            /\ UNCHANGED <<active, tr, co, ff, tlist, plist, mux, timers, events, fs>>]_vars

\* a stop repeated after a successful stop of the same id was answered
\* NotFound
C3_Witness ==
  \E s1, s2 \in StopCalls :
    /\ s1 < s2
    /\ stop[s1].result = "success"
    /\ stop[s2].result = "NotFound"
    /\ stop[s1].id = stop[s2].id

\* C4: two start calls that both succeed obtain different recording ids.
C4_DistinctIds ==
  \A c1, c2 \in StartCalls :
    (c1 # c2 /\ start[c1].result = "success" /\ start[c2].result = "success")
      => start[c1].id # start[c2].id

\* C5: in the step that deletes a recording's entry from the Registry,
\* every muxer the recording holds has been signaled to stop or has exited,
\* and every consumer and transport of the recording is closed.
C5_DeleteAfterQuiesce ==
  [][\A i \in Ids :
       (active[i] # NoRec /\ active'[i] = NoRec)
         => /\ \A pr \in mux[active[i]] : Stopping(ff'[pr[1]][pr[2]])
            /\ AllClosedIn(active[i], tr', co')]_vars

\* C6: when stopMixedRecording has deleted the entry and replied, the muxer
\* of the recording has exited or has been sent a termination signal.
C6_NoUnsignaledMuxer ==
  \A s \in StopCalls :
    (mode = "mixed" /\ stop[s].pc \in {"probe", "done"} /\ stop[s].st # NoRec)
      => (st_ff(stop[s].st).st # "running" \/ st_ff(stop[s].st).sig # "none")

\* C7: a start that ended with an error leaves no Registry entry for the
\* attempt.
C7_NoEntryAfterError ==
  \A c \in StartCalls :
    (start[c].pc = "done" /\ start[c].result # "success")
      => \A i \in Ids : active[i] # c

\* C8: a start that yields zero usable inputs is rejected with NoInputs,
\* spawns no muxer and creates no Registry entry.
C8_NoInputsRejected ==
  \A c \in StartCalls :
    (start[c].pc = "done" /\ plist[c] = {}
       /\ start[c].result \notin {"RouterUnready", "OutputUnwritable", "error"})
      => /\ start[c].result = "NoInputs"
         /\ \A x \in Slots : ff[c][x].st = "none"
         /\ \A i \in Ids : active[i] # c

\* C9: a start issued through the RecordingHandler while the room has no
\* router, or a router without RTP capabilities, gets a failure reply and
\* has no effect: no directory or file, no transport or consumer, no
\* process, no Registry entry.
C9_RouterUnreadyNoEffect ==
  (mode \in {"mixed", "rm"} /\ router # "ready")
    => /\ \A c \in StartCalls : start[c].result # "success"
       /\ fs = {}
       /\ \A c \in StartCalls, p \in Producers : tr[c][p] = "none" /\ co[c][p] = "none"
       /\ \A c \in StartCalls, x \in Slots : ff[c][x].st = "none"
       /\ \A i \in Ids : active[i] = NoRec

\* C10: a start whose muxer could not be spawned does not reply success,
\* has its transports and consumers closed and leaves no Registry entry.
C10_SpawnFailureRejected ==
  \A c \in StartCalls :
    (start[c].pc = "done" /\ \E x \in Slots : ff[c][x].st = "failed")
      => /\ start[c].result # "success"
         /\ \A p \in Producers : tr[c][p] # "open" /\ co[c][p] \notin {"paused", "flowing"}
         /\ \A i \in Ids : active[i] # c

\* C11: when the muxer of a registered mixed recording exits with a non-zero
\* code before any stop was requested for it, the same step removes the
\* recording from the Registry and emits exactly one recordingError.
C11_CrashRemovesEntry ==
  [][\A c \in StartCalls, i \in Ids :
       (/\ mode = "mixed"
        /\ active[i] = c
        /\ ff[c]["main"].st = "running"
        /\ ff'[c]["main"].st = "crashed"
        /\ \A s \in StopCalls : stop[s].pc = "idle" \/ stop[s].st # c)
         => /\ active'[i] = NoRec
            /\ Count(events'[i], "recordingError") = Count(events[i], "recordingError") + 1]_vars

\* C12: when the periodic health check finds the recording older than the
\* stale threshold, the recording is force-stopped: its Registry entry is
\* removed, its muxer is signaled (or has exited), its consumers and
\* transports are closed and a recordingError is emitted.
C12_StaleForceStopped ==
  [][\A i \in Ids :
       (/\ Stale(ui)
        /\ ui' = ResetRecordingState(ui)
        /\ ui.hasId /\ ui.id = i
        /\ active[i] # NoRec)
         => /\ active'[i] = NoRec
            /\ \A pr \in mux[active[i]] :
                 ff'[pr[1]][pr[2]].st # "running" \/ ff'[pr[1]][pr[2]].sig # "none"
            /\ AllClosedIn(active[i], tr', co')
            /\ Count(events'[i], "recordingError") = Count(events[i], "recordingError") + 1]_vars

\* C13: a stop requested before the minimum runtime floor is held: it goes
\* on (quit request, closes) no earlier than MinRunSec after the recording
\* started, and exactly when the floor is reached, not later.
C13_HeldUntilFloor ==
  (tm.phase \in {"proceeded", "replied"} /\ tm.reqAt < tm.startedAt + MinRunSec)
    => tm.goAt = tm.startedAt + MinRunSec

\* C21: for a stopMixedRecording that completes normally, the duration of
\* the output file (the time the muxer ran between being seen started and
\* exiting) is at most the reported actual_elapsed plus 2 s.
C21_DurationWithinElapsed ==
  tm.phase = "replied" => tm.duration <= tm.actual_elapsed + 2

\* C22: for a startMixedRecording that returned success, recordingStarted
\* is emitted exactly once: never twice, and once when the 3 s of the
\* fallback timer are over.
C22_StartedExactlyOnce ==
  /\ tm.recordingStarted <= 1
  /\ (tm.phase # "none" /\ tm.clk > tm.startedAt + FallbackSec) => tm.recordingStarted = 1

Live(e) == pt.ep[e] = "live"

\* C14: no two live endpoints are connected to the same peer RTP port.
C14_NoSharedPeerPort ==
  \A e1, e2 \in Endpoints :
    (e1 # e2 /\ Live(e1) /\ Live(e2)) => pt.port[e1] # pt.port[e2]

\* C15: the RTP port P and the RTCP port P+1 of every connected endpoint
\* were both probed free by the allocation that returned P, and the pairs
\* {P, P+1} of two live endpoints do not overlap.
C15_PairProbedFree ==
  /\ \A e \in Endpoints :
       Live(e) => {pt.port[e], pt.port[e] + 1} \subseteq pt.probed[e]
  /\ \A e1, e2 \in Endpoints :
       (e1 # e2 /\ Live(e1) /\ Live(e2))
         => {pt.port[e1], pt.port[e1] + 1} \cap {pt.port[e2], pt.port[e2] + 1} = {}

\* C16: after a successful start, the payload type written in the rtpmap
\* line of each SDP media section equals the payload type of every recording
\* consumer of that kind attached to the recording.
C16_SdpMatchesConsumers ==
  sd.pc = "done"
    => \A p \in sd.attached :
         sd.consumerPT[p] = (IF SdpKind(p) = "video" THEN sd.sdpVideo ELSE sd.sdpAudio)

Min(a, b) == IF a < b THEN a ELSE b
VideoInputs == SelectSeq(mx.inputs, LAMBDA i : i[1] = "video")
AudioInputs == SelectSeq(mx.inputs, LAMBDA i : i[1] = "audio")

C18_LayoutTable ==
  (mx.pc = "spawn" /\ mx.videoCount \in 1..4)
    => /\ mx.videoCount = 1 =>
            mx.layout = [rows |-> 1, cols |-> 1, cellW |-> mx.width, cellH |-> mx.height]
       /\ mx.videoCount = 2 =>
            mx.layout = [rows |-> 1, cols |-> 2, cellW |-> mx.width \div 2, cellH |-> mx.height]
       /\ mx.videoCount \in {3, 4} =>
            mx.layout = [rows |-> 2, cols |-> 2, cellW |-> mx.width \div 2,
                         cellH |-> mx.height \div 2]

\* two video inputs on an odd width: one row of two cells of half the width
C18_Witness ==
  /\ mx.pc = "spawn" /\ mx.videoCount = 2 /\ mx.width = 5
  /\ mx.layout = [rows |-> 1, cols |-> 2, cellW |-> 2, cellH |-> mx.height]

\* C19: with zero video inputs and at least one audio input, the filter
\* graph has no video scaling or stacking stage and the argument vector
\* maps the audio output only, no video output label.
C19_AudioOnly ==
  (mx.pc = "spawn" /\ mx.videoCount = 0 /\ mx.audioCount > 0)
    => /\ \A k \in 1..Len(mx.filter) : mx.filter[k][1] \notin {"scale", "xstack", "vout"}
       /\ mx.maps = <<"aout">>

\* C20: when stopRecording completes and the muxer wrote its output, the
\* path the stop checks and reports is the path the muxer was told to
\* write, and file_exists is true.
C20_OutputFound ==
  (fl.pc = "stopped" /\ fl.output \in fl.written)
    => fl.filePath = fl.output /\ fl.file_exists

\* positions of the log before position i that hold event e
Earlier(i, e) == {j \in 1..(i - 1) : sd.log[j] = e}

\* C23: within one recording every input's endpoint is created, its transport
\* is connected and the SDP is written before the muxer is spawned, and the
\* muxer is spawned before any consumer is resumed or asked for a key frame.
C23_StartOrder ==
  \A i \in DOMAIN sd.log :
    sd.log[i].ev = "spawn"
      => /\ \A k \in {"video", "audio"} :
              /\ Earlier(i, Ev("create", k)) \cup Earlier(i, Ev("create", "both")) # {}
              /\ Earlier(i, Ev("connect", k)) \cup Earlier(i, Ev("connect", "both")) # {}
         /\ Earlier(i, Ev("sdp", "muxer")) # {}
         /\ \A j \in DOMAIN sd.log : sd.log[j].ev \in {"resume", "keyframe"} => i < j

\* C24: every recording consumer is created paused and is resumed only after
\* the muxer that ingests it has been spawned.
C24_PausedUntilMuxer ==
  \A i \in DOMAIN sd.log :
    /\ sd.log[i].ev # "consumeFlowing"
    /\ sd.log[i].ev = "resume" => Earlier(i, Ev("spawn", "muxer")) # {}

\* C25: RecordingManager.stopRecording signals the muxer before it closes
\* any consumer or transport of the recording.
C25_KillBeforeClose ==
  \A i \in DOMAIN sd.log :
    sd.log[i].ev \in {"closeConsumer", "closeTransport"}
      => Earlier(i, Ev("kill", "muxer")) # {}

\* position in pe.calls of call e on item k, 0 when it was not made
CallAt(e, k) ==
  LET at == {j \in DOMAIN pe.calls : pe.calls[j] = Ev(e, k)}
  IN IF at = {} THEN 0 ELSE CHOOSE j \in at : \A h \in at : j <= h

\* C26: PerParticipantRecorder.stop on a registered recording sends SIGINT
\* to each item's muxer before it closes that item's consumer and transport,
\* calls close on every consumer and transport even when a close fails,
\* builds metadata with one output path per item and durationMs = endedAt -
\* startedAt, and removes the entry only after all of that.
C26_PerStop ==
  /\ pe.pc \in {"recording", "loop", "finish"} => pe.registered
  /\ pe.pc = "done"
       => /\ ~pe.registered
          /\ \A k \in DOMAIN pe.items :
               /\ 0 < CallAt("kill", k)
               /\ CallAt("kill", k) < CallAt("closeConsumer", k)
               /\ CallAt("kill", k) < CallAt("closeTransport", k)
               /\ pe.items[k].consumer # "open"
               /\ pe.items[k].transport # "open"
               /\ pe.items[k].ff = "running" => pe.items[k].sig = "SIGINT"
          /\ Len(pe.metadata.files) = Len(pe.items)
          /\ \A k \in DOMAIN pe.items : pe.metadata.files[k] = pe.items[k].outFile
          /\ pe.metadata.startedAt = pe.startedAt
          /\ pe.metadata.durationMs = pe.metadata.endedAt - pe.startedAt
          /\ pe.file \in {NoMeta, pe.metadata}

\* a stop of two items where the first consumer's close threw, the second
\* item was still closed, and the metadata file was written
C26_Witness ==
  /\ pe.pc = "done"
  /\ Len(pe.items) = 2
  /\ pe.items[1].consumer = "failed"
  /\ pe.items[2].consumer = "closed" /\ pe.items[2].transport = "closed"
  /\ pe.items[2].sig = "SIGINT"
  /\ pe.file = pe.metadata /\ pe.metadata.durationMs > 0

\* C27: every periodic timer of a mixed recording (keyframe pump, monitor,
\* 100 ms readiness check) is cancelled by the time stopMixedRecording has
\* removed the entry, and none fires after that, pid or no pid.
C27_TimersCancelled ==
  /\ tm.phase = "replied"
       => ~tm.keyframeIntervals /\ ~tm.monitorInterval /\ ~tm.ffmpegCheckInterval
  /\ tm.lateChecks = 0

\* C28: a start that failed part-way through binding its inputs leaves no
\* open transport, no open consumer and no running, unsignaled muxer behind.
C28_FailedStartCleansUp ==
  \A c \in StartCalls :
    (start[c].pc = "done" /\ start[c].result = "error")
      => \A p \in Producers :
           /\ tr[c][p] # "open"
           /\ co[c][p] \notin {"paused", "flowing"}
           /\ ff[c][p].st = "running" => ff[c][p].sig # "none"

\* the inputs a room made of the consumable producers alone would get: its
\* first four video producers, then its audio producers
InputsWithout(bad) ==
  LET vs == SelectSeq(VideoProducersOf(mx.V), LAMBDA p : p \notin bad)
      as == SelectSeq(AudioProducersOf(mx.A), LAMBDA p : p \notin bad)
  IN SubSeq(vs, 1, Min(Len(vs), 4)) \o as

\* C29: a producer the router cannot consume is skipped without failing the
\* start: it gets no input, and the inputs bound are those the room would
\* get if the skipped producer were absent.
C29_SkippedAsAbsent ==
  mx.pc = "spawn"
    => /\ \A k \in DOMAIN mx.inputs : mx.inputs[k] \notin mx.bad
       /\ mx.inputs = InputsWithout(mx.bad)

\* C30: an allocator makes a bounded number of probes (at least 50 tries
\* before it gives up); it returns only a port whose probe bind succeeded,
\* throws only after every try met an occupied port, and leaves no probe
\* socket open.
C30_AllocatorBounded ==
  LET a == pt.al
  IN /\ a.fn # "none"
          => /\ a.attempts <= ProbeLimit(a.fn)
             /\ a.probes <= ProbesPerTry(a.fn) * (a.attempts + 1)
     /\ Cardinality(a.socks) <= 1
     /\ a.pc \in {"idle", "pick", "bind", "returned", "exhausted"} => a.socks = {}
     /\ a.pc = "returned"
          => /\ a.result \in a.good
             /\ a.fn = "base" => a.result + 2 \in a.good
     /\ a.pc = "exhausted"
          => /\ a.attempts >= 50
             /\ a.result = NoPort
             /\ a.probes >= a.attempts
     /\ a.pc \notin {"returned"} => a.result = NoPort

\* _getFreeBasePort gave up after its last pair, with every try failed
C30_Witness ==
  /\ pt.al.pc = "exhausted" /\ pt.al.fn = "base"
  /\ pt.al.attempts = BasePortAttempts /\ pt.al.socks = {}

\* the layout option of the xstack stage of the filter graph
XstackLayout == mx.filter[mx.videoCount + 1][3]

\* C31: for V in 1..4 video inputs the xstack layout has exactly V entries,
\* entry i being the corner (c * cellW, r * cellH) of cell i in row-major
\* order (r = i div cols, c = i mod cols); the entries are pairwise
\* distinct, and for V = 3 the fourth cell (cellW, cellH) is not assigned.
C31_GridRowMajor ==
  (mx.pc = "spawn" /\ mx.videoCount \in 1..4)
    => /\ Len(XstackLayout) = mx.videoCount
       /\ \A i \in 0..(mx.videoCount - 1) :
            XstackLayout[i + 1] = <<(i % mx.layout.cols) * mx.layout.cellW,
                                    (i \div mx.layout.cols) * mx.layout.cellH>>
       /\ \A i, j \in 1..mx.videoCount : i # j => XstackLayout[i] # XstackLayout[j]
       /\ mx.videoCount = 3
            => \A i \in 1..3 : XstackLayout[i] # <<mx.layout.cellW, mx.layout.cellH>>

\* three video inputs on an odd width: three cells assigned
C31_Witness ==
  /\ mx.pc = "spawn" /\ mx.videoCount = 3 /\ mx.width = 5
  /\ XstackLayout = << <<0, 0>>, <<2, 0>>, <<0, mx.layout.cellH>> >>

\* C32: for every input the RTP port of the media line of its SDP is the
\* port passed to transport.connect, and the SDP declares the RTCP port as
\* that port plus one, the rtcpPort passed to transport.connect.
C32_SdpPortsMatchConnect ==
  \A e \in Endpoints :
    pt.conn[e] # NoMedia
      => /\ pt.sdp[e].rtp = pt.conn[e].rtp
         /\ pt.sdp[e].rtcp = pt.conn[e].rtp + 1
         /\ pt.sdp[e].rtcp = pt.conn[e].rtcp

\* an input of recording c whose producer closed while c consumed it
LostInput(c) == \E p \in Producers : <<c, p>> \in plist[c] /\ co[c][p] = "producerclosed"

\* C33: when the producer of one input of a mixed recording closes, the
\* recording stays registered and the other consumers keep their state; a
\* later stopMixedRecording still gets through: once it has passed its
\* closes every consumer and transport of the recording is closed and the
\* entry is removed.
C33_ProducerCloseSurvived ==
  /\ [][roomProducers' # roomProducers
          => /\ active' = active /\ tr' = tr /\ ff' = ff /\ timers' = timers
             /\ \A c \in StartCalls : \A q \in roomProducers' : co'[c][q] = co[c][q]]_vars
  /\ [](\A s \in StopCalls :
         (stop[s].st # NoRec /\ LostInput(stop[s].st) /\ stop[s].pc \in {"probe", "done"})
           => /\ \A p \in Producers :
                   <<stop[s].st, p>> \in plist[stop[s].st]
                     => co[stop[s].st][p] \in {"closed", "producerclosed"}
              /\ \A p \in tlist[stop[s].st] : tr[stop[s].st][p] = "closed"
              /\ active[stop[s].id] # stop[s].st)

\* the video producer closed during the recording, the audio consumer was
\* closed by the stop, which replied success
C33_Witness ==
  \E s \in StopCalls :
    /\ stop[s].pc = "done" /\ stop[s].result = "success" /\ stop[s].st # NoRec
    /\ co[stop[s].st]["v1"] = "producerclosed"
    /\ co[stop[s].st]["a1"] = "closed"
    /\ tr[stop[s].st]["v1"] = "closed" /\ tr[stop[s].st]["a1"] = "closed"

\* C34: ffmpegStartedAt is recorded only once the muxer's diagnostic stream
\* has shown a frame line, at most once per recording and never before
\* startedAt, and the elapsed time the stop reports is measured from it
\* whenever it is set.
C34_MuxerStartedInstant ==
  /\ tm.ffmpegStartedAt # NoTime
       => /\ tm.hasStarted
          /\ tm.ffmpegStartedAt >= tm.startedAt
          /\ tm.recordingStarted = 1
  /\ (tm.reqAt # NoTime /\ tm.ffmpegStartedAt # NoTime /\ tm.ffmpegStartedAt < tm.reqAt)
       => tm.actual_elapsed = tm.reqAt - tm.ffmpegStartedAt

\* place of an event in the lifecycle of a recording
LifecycleRank(e) ==
  CASE e = "starting" -> 1
    [] e = "recordingStarted" -> 2
    [] e = "stopping" -> 3
    [] e = "processing" -> 4
    [] e = "recordingStopped" -> 5

\* C35: the events of one mixed recording are emitted in lifecycle order:
\* starting, recordingStarted, stopping, processing, recordingStopped, each
\* at most once, and nothing after recordingStopped.
C35_LifecycleOrder ==
  \A i, j \in DOMAIN tm.emitted :
    i < j => LifecycleRank(tm.emitted[i]) < LifecycleRank(tm.emitted[j])

\* C36: under every interleaving of RecordingManager.startRecording and
\* stopRecording, a running muxer the start spawned is referenced by a
\* Registry entry or has been signaled, and a start that did not find its
\* entry when the muxer was created does not report success.
C36_NoOrphanMuxer ==
  mode = "rm"
    => \A c \in StartCalls :
         /\ ff[c]["main"].st = "running"
              => \/ ff[c]["main"].sig # "none"
                 \/ \E i \in Ids : active[i] # NoRec /\ <<c, "main">> \in mux[active[i]]
         /\ (start[c].pc = "done" /\ start[c].result = "success") => start[c].rec # NoRec

(***************************************************************************)
(* RecordingHandler: each operation awaits its manager inside try/catch    *)
(***************************************************************************)
unrh == <<mode, now, router, roomProducers, consumable, active, start, tr, co,
          tlist, plist, mux, ff, timers, stop, events, fs, ui, pt, sd, mx, fl, tm, pe>>

HandlerOps == {"startRecording", "stopRecording", "startMixedRecording", "stopMixedRecording"}

\* what the caller passes: an object, or nothing at all
HandlerData == {"object", "undefined"}

\* messages of errors raised below the managers (mediasoup, fs, child_process);
\* an Error may carry an empty message
EnvMessages == {"", "transport failed"}

\* new Error(...) sites of a manager operation, and what its awaits can raise
ManagerErrors(op) ==
  CASE op = "startRecording" ->
         {"Room not initialized", "Router not initialized",
          "No video or audio producers found for recording",
          "Unable to allocate free UDP ports for recording"} \cup EnvMessages
    [] op = "stopRecording" -> {"Recording not found"} \cup EnvMessages
    [] op = "startMixedRecording" ->
         {"Router not initialized", "No producers to mix", "No mixable inputs created",
          "No free UDP port available"} \cup EnvMessages
    [] OTHER -> EnvMessages

\* catch (error) { throw new Error(error.message || 'Failed to ...') } of
\* RecordingManager; MixedRecordingManager has no catch of its own
ManagerCatch(op, message) ==
  CASE op = "startRecording" ->
         [message |-> IF message = "" THEN "Failed to start recording" ELSE message]
    [] op = "stopRecording" ->
         [message |-> IF message = "" THEN "Failed to stop recording" ELSE message]
    [] OTHER -> [message |-> message]

\* the replies a manager operation resolves with
ManagerReplies(op) ==
  IF op = "stopMixedRecording"
  THEN {[raised |-> FALSE, success |-> TRUE, error |-> "none", body |-> op],
        [raised |-> FALSE, success |-> FALSE, error |-> "Not found", body |-> "none"]}
  ELSE {[raised |-> FALSE, success |-> TRUE, error |-> "none", body |-> op]}

\* a catch block that lets the error through
HandlerCatch_Rethrow(error) ==
  [raised |-> TRUE, success |-> FALSE, error |-> error.message, body |-> "none"]

\* catch (error) { return { success: false, error: error.message } }
HandlerCatch(error) ==
  [raised |-> FALSE, success |-> FALSE, error |-> error.message, body |-> "none"]

HandlerCaught(h, error) ==
  rh' = [rh EXCEPT ![h].pc = "replied", ![h].thrown = error, ![h].reply = HandlerCatch(error)]

\* entry of an operation up to its first await; const { ... } = data raises a
\* TypeError on undefined, inside the try
HandlerCall(h, op, data) ==
  /\ rh[h].pc = "idle"
  /\ h > 1 => rh[h - 1].pc # "idle"
  /\ op \in (IF mode = "mixed" THEN {"startMixedRecording", "stopMixedRecording"}
                              ELSE {"startRecording", "stopRecording"})
  /\ IF data = "undefined" /\ op \in {"startRecording", "stopRecording"}
     THEN rh' = [rh EXCEPT ![h].op = op, ![h].data = data, ![h].pc = "replied",
                           ![h].reply = HandlerCatch([message |-> "Cannot destructure"])]
     ELSE rh' = [rh EXCEPT ![h].op = op, ![h].data = data,
                           ![h].pc = IF op = "startRecording" THEN "router" ELSE "manager"]
  /\ UNCHANGED unrh

\* startRecording after the router is obtained: the two checks on it
HandlerRouter(h) ==
  /\ rh[h].pc = "router"
  /\ \E rejects \in BOOLEAN :
       IF rejects
       THEN rh' = [rh EXCEPT ![h].pc = "replied",
                             ![h].reply = HandlerCatch([message |-> "transport failed"])]
       ELSE CASE router = "none" ->
                   rh' = [rh EXCEPT ![h].pc = "replied",
                            ![h].reply = HandlerCatch([message |-> "Room router not initialized"])]
              [] router = "nocaps" ->
                   rh' = [rh EXCEPT ![h].pc = "replied",
                            ![h].reply = HandlerCatch([message |-> "Router RTP capabilities not available"])]
              [] OTHER -> rh' = [rh EXCEPT ![h].pc = "manager"]
  /\ UNCHANGED unrh

\* the manager's promise settles: return response, or the catch block
HandlerManager(h) ==
  /\ rh[h].pc = "manager"
  /\ \/ /\ rh[h].data = "object"
        /\ \E r \in ManagerReplies(rh[h].op) :
             rh' = [rh EXCEPT ![h].pc = "replied", ![h].reply = r]
     \/ /\ rh[h].data = "object"
        /\ \E m \in ManagerErrors(rh[h].op) : HandlerCaught(h, ManagerCatch(rh[h].op, m))
     \/ /\ rh[h].data = "undefined"
        /\ HandlerCaught(h, ManagerCatch(rh[h].op, "Cannot destructure"))
  /\ UNCHANGED unrh

HandlerInit ==
  /\ Init
  /\ mode \in {"mixed", "rm"}
  /\ roomProducers = {} /\ consumable = {}

HandlerNext ==
  \/ \E h \in HandlerCalls, op \in HandlerOps, data \in HandlerData : HandlerCall(h, op, data)
  \/ \E h \in HandlerCalls : HandlerRouter(h)
  \/ \E h \in HandlerCalls : HandlerManager(h)

HandlerSpec == HandlerInit /\ [][HandlerNext]_vars

\* C37: every RecordingHandler call that has ended gave back a reply object
\* and raised nothing, and when its manager raised an error the reply has
\* success false and carries that error's message.
C37_HandlerAlwaysReplies ==
  \A h \in HandlerCalls :
    rh[h].pc = "replied"
      => /\ ~rh[h].reply.raised
         /\ rh[h].reply # NoReply
         /\ rh[h].thrown # NoError
              => ~rh[h].reply.success /\ rh[h].reply.error = rh[h].thrown.message

\* two calls of different operations have ended on an error of their manager,
\* one of them an error with an empty message
C37_Witness ==
  /\ \A h \in HandlerCalls : rh[h].pc = "replied" /\ rh[h].thrown # NoError
  /\ rh[1].op # rh[2].op
  /\ \E h \in HandlerCalls : rh[h].thrown.message \in {"Failed to start recording", "Failed to stop recording"}

Next ==
  \/ Tick
  \/ \E c \in StartCalls, x \in Slots : MuxerExit(c, x)
  \/ \E c \in StartCalls : StartMixedRecording(c)
  \/ \E c \in StartCalls : MixedBind(c)
  \/ \E c \in StartCalls : MixedSpawn(c)
  \/ \E c \in StartCalls : MixedRegister(c)
  \/ \E s \in StopCalls, id \in Ids : StopMixedRecording(s, id)
  \/ \E s \in StopCalls : StopMixedMinWait(s)
  \/ \E s \in StopCalls : StopMixedWait300(s)
  \/ \E s \in StopCalls : StopMixedWait30000(s)
  \/ \E s \in StopCalls : StopMixedWait5000(s)
  \/ \E s \in StopCalls : StopMixedProbe(s)
  \/ \E c \in StartCalls : PerStart(c)
  \/ \E c \in StartCalls : PerBind(c)
  \/ \E c \in StartCalls : PerRegister(c)
  \/ \E s \in StopCalls, id \in Ids : PerStop(s, id)
  \/ \E c \in StartCalls : RMStartRecording(c)
  \/ \E c \in StartCalls : RMTransports(c)
  \/ \E c \in StartCalls : RMConsume(c)
  \/ \E c \in StartCalls : RMFFmpeg(c)
  \/ \E c \in StartCalls : RMResume(c)
  \/ \E s \in StopCalls, id \in Ids : RMStopRecording(s, id)

Spec == Init /\ [][Next]_vars

(***************************************************************************)
(* The browser's session: one browser, a room whose router is ready, the   *)
(* server's mixed recording operations reached through the socket.         *)
(***************************************************************************)
HealthInit == Init /\ mode = "mixed" /\ router = "ready"

HealthNext ==
  \/ UiStartRecording
  \/ UiServerStart
  \/ \E c \in StartCalls : MixedBind(c)
  \/ \E c \in StartCalls : MixedSpawn(c)
  \/ \E c \in StartCalls : MixedRegister(c)
  \/ UiStartReply
  \/ UiStartFallback
  \/ UiHour
  \/ CheckRecordingHealth
  \/ UiStopRecording
  \/ UiServerStop
  \/ \E s \in StopCalls : StopMixedMinWait(s)
  \/ \E s \in StopCalls : StopMixedWait300(s)
  \/ \E s \in StopCalls : StopMixedWait30000(s)
  \/ \E s \in StopCalls : StopMixedWait5000(s)
  \/ \E s \in StopCalls : StopMixedProbe(s)
  \/ UiStopReply
  \/ UiStopFallback
  \/ HandleRecordingStopped
  \/ \E c \in StartCalls : MuxerExit(c, "main")

HealthSpec == HealthInit /\ [][HealthNext]_vars

(***************************************************************************)
(* One mixed recording against the clock                                   *)
(***************************************************************************)
FloorInit ==
  /\ Init
  /\ mode = "mixed" /\ router = "ready"
  /\ roomProducers = Producers /\ consumable = Producers

FloorNext == FloorTick \/ FloorStart \/ CheckFFmpegReady \/ FloorStop \/ FloorWake \/ FloorReply
               \/ LateCheck

FloorSpec == FloorInit /\ [][FloorNext]_vars

(***************************************************************************)
(* Port allocation for one mixed recording and one recording of            *)
(* RecordingManager on the same host                                       *)
(***************************************************************************)
PortInit ==
  /\ Init
  /\ mode = "mixed" /\ router = "ready"
  /\ roomProducers = Producers /\ consumable = Producers

PortNext ==
  \/ \E port \in Ports : PortTaken(port)
  \/ \E e \in Endpoints : GetFreePort(e)
  \/ GetFreeBasePort
  \/ \E e \in Endpoints : Connect(e)
  \/ \E m \in {"mixed", "rm"} : MuxerListens(m)
  \/ \E m \in {"mixed", "rm"} : EndpointsClosed(m)

PortSpec == PortInit /\ [][PortNext]_vars

(***************************************************************************)
(* One start of RecordingManager over a room of two video producers and    *)
(* one audio producer, for every assignment of payload types               *)
(***************************************************************************)
SdpInit ==
  /\ mode = "rm" /\ now = 0 /\ router = "ready"
  /\ roomProducers = Producers /\ consumable = Producers
  /\ active = [i \in Ids |-> NoRec]
  /\ start = [c \in StartCalls |-> IdleStart]
  /\ tr = [c \in StartCalls |-> [p \in Producers |-> "none"]]
  /\ co = [c \in StartCalls |-> [p \in Producers |-> "none"]]
  /\ tlist = [c \in StartCalls |-> {}]
  /\ plist = [c \in StartCalls |-> {}]
  /\ mux = [c \in StartCalls |-> {}]
  /\ ff = [c \in StartCalls |-> [x \in Slots |-> NoProc]]
  /\ timers = [c \in StartCalls |-> FALSE]
  /\ stop = [s \in StopCalls |-> IdleStop]
  /\ events = [i \in Ids |-> <<>>]
  /\ fs = {}
  /\ ui = UiIdle
  /\ tm = TmIdle
  /\ pe = PrIdle
  /\ rh = RhIdle
  /\ pt = PtIdle
  /\ mx = MxIdle
  /\ fl = FlIdle
  /\ \E v \in {"producers", "single", "consumers"},
        pp \in [{"v1", "v2", "a1"} -> PTs], cp \in [{"v1", "v2", "a1"} -> PTs] :
       sd = [SdIdle EXCEPT !.variant = v, !.producerPT = pp, !.consumerPT = cp]

SdpNext ==
  \/ SdpFromProducers
  \/ SdpFromConsumers
  \/ CollectRtp
  \/ createSdpText
  \/ CreatePlainTransports
  \/ ConnectProducersToRecording
  \/ ResumeConsumers
  \/ SdpStopRecording

SdpSpec == SdpInit /\ [][SdpNext]_vars

(***************************************************************************)
(* startMixedRecording for every room of up to MaxVideos video and         *)
(* MaxAudios audio producers, at most one of which the router cannot       *)
(* consume, and every target size                                          *)
(***************************************************************************)
MixInit ==
  /\ mode = "mixed" /\ now = 0 /\ router = "ready"
  /\ roomProducers = Producers /\ consumable = Producers
  /\ active = [i \in Ids |-> NoRec]
  /\ start = [c \in StartCalls |-> IdleStart]
  /\ tr = [c \in StartCalls |-> [p \in Producers |-> "none"]]
  /\ co = [c \in StartCalls |-> [p \in Producers |-> "none"]]
  /\ tlist = [c \in StartCalls |-> {}]
  /\ plist = [c \in StartCalls |-> {}]
  /\ mux = [c \in StartCalls |-> {}]
  /\ ff = [c \in StartCalls |-> [x \in Slots |-> NoProc]]
  /\ timers = [c \in StartCalls |-> FALSE]
  /\ stop = [s \in StopCalls |-> IdleStop]
  /\ events = [i \in Ids |-> <<>>]
  /\ fs = {}
  /\ ui = UiIdle
  /\ tm = TmIdle
  /\ pe = PrIdle
  /\ rh = RhIdle
  /\ pt = PtIdle
  /\ sd = SdIdle
  /\ fl = FlIdle
  /\ \E v \in 0..MaxVideos, a \in 0..MaxAudios, w \in Widths, h \in Heights :
       \E b \in SUBSET ({<<"video", i>> : i \in 1..v} \cup {<<"audio", j>> : j \in 1..a}) :
         /\ Cardinality(b) <= 1
         /\ mx = [MxIdle EXCEPT !.V = v, !.A = a, !.width = w, !.height = h, !.bad = b]

MixNext == MixSelect \/ MixInput \/ MixArgs

MixSpec == MixInit /\ [][MixNext]_vars

(***************************************************************************)
(* One recording of RecordingManager and its output file                   *)
(***************************************************************************)
FileInit ==
  /\ mode = "rm" /\ now = 0 /\ router = "ready"
  /\ roomProducers = Producers /\ consumable = Producers
  /\ active = [i \in Ids |-> NoRec]
  /\ start = [c \in StartCalls |-> IdleStart]
  /\ tr = [c \in StartCalls |-> [p \in Producers |-> "none"]]
  /\ co = [c \in StartCalls |-> [p \in Producers |-> "none"]]
  /\ tlist = [c \in StartCalls |-> {}]
  /\ plist = [c \in StartCalls |-> {}]
  /\ mux = [c \in StartCalls |-> {}]
  /\ ff = [c \in StartCalls |-> [x \in Slots |-> NoProc]]
  /\ timers = [c \in StartCalls |-> FALSE]
  /\ stop = [s \in StopCalls |-> IdleStop]
  /\ events = [i \in Ids |-> <<>>]
  /\ fs = {}
  /\ ui = UiIdle
  /\ tm = TmIdle
  /\ pe = PrIdle
  /\ rh = RhIdle
  /\ pt = PtIdle
  /\ sd = SdIdle
  /\ mx = MxIdle
  /\ \E d \in RecordDirs : fl = [FlIdle EXCEPT !.recordDir = d]

FileNext == FileTick \/ FileStartRecording \/ FileSpawn \/ MuxerWrites \/ FileStopRecording

FileSpec == FileInit /\ [][FileNext]_vars

(***************************************************************************)
(* One recording of PerParticipantRecorder and the stop call on it         *)
(***************************************************************************)
PerStopInit == Init /\ mode = "per" /\ router = "ready"

PerStopNext ==
  \/ PerTick
  \/ PerStarted
  \/ PerMuxerExit
  \/ PerStopEnter
  \/ PerStopItem
  \/ PerStopFinish

PerStopSpec == PerStopInit /\ [][PerStopNext]_vars

(***************************************************************************)
(* One call of an allocator on a host where other processes hold ports     *)
(***************************************************************************)
ProbeInit ==
  /\ Init
  /\ mode = "mixed" /\ router = "ready"
  /\ roomProducers = Producers /\ consumable = Producers

ProbeNext ==
  \/ \E port \in Ports : PortTaken(port)
  \/ \E fn \in {"port", "base"} : AllocCall(fn)
  \/ PickCandidate
  \/ ProbeBind
  \/ ProbeCallback

ProbeSpec == ProbeInit /\ [][ProbeNext]_vars

(***************************************************************************)
(* Mixed recordings in a room whose producers may close                    *)
(***************************************************************************)
CloseInit ==
  /\ Init
  /\ mode = "mixed" /\ router = "ready"
  /\ roomProducers = Producers /\ consumable = Producers

CloseNext ==
  \/ Tick
  \/ \E c \in StartCalls : MuxerExit(c, "main")
  \/ \E p \in Producers : ProducerClose(p)
  \/ \E c \in StartCalls : StartMixedRecording(c)
  \/ \E c \in StartCalls : MixedBind(c)
  \/ \E c \in StartCalls : MixedSpawn(c)
  \/ \E c \in StartCalls : MixedRegister(c)
  \/ \E s \in StopCalls, id \in Ids : StopMixedRecording(s, id)
  \/ \E s \in StopCalls : StopMixedMinWait(s)
  \/ \E s \in StopCalls : StopMixedWait300(s)
  \/ \E s \in StopCalls : StopMixedWait30000(s)
  \/ \E s \in StopCalls : StopMixedWait5000(s)
  \/ \E s \in StopCalls : StopMixedProbe(s)

CloseSpec == CloseInit /\ [][CloseNext]_vars

====
